---- MODULE Spec2Model ----
(***************************************************************************)
(* Saturnina backend: the order aggregate (orders, order items), the       *)
(* catalog (products, product images, categories), the blob store of       *)
(* transfer receipts, the review (comment) handlers that read the order    *)
(* aggregate, and the accounts (registration, activation, login, password  *)
(* recovery).                                                              *)
(*                                                                         *)
(* Values.  A request body is JSON; its scalar fields are modelled as      *)
(* tokens (strings): "1", "2", "40" are numbers, "0" is the number zero,   *)
(* "x" is a non-numeric string, None is an absent key / JSON null.         *)
(* Database columns hold integers and strings; a nullable integer column   *)
(* is a sequence of length 0 (NULL) or 1.                                  *)
(***************************************************************************)
EXTENDS Integers, Sequences, FiniteSets, TLC

None == "None"

\* ---------------------------------------------------------------- bounds
\* The order id sequence is used at most MaxOrders times.
MaxOrders == 2
\* A request carries at most MaxLines product lines.
MaxLines == 2
\* The comment id sequence is used at most MaxComments times.
MaxComments == 2
\* At most MaxUploads receipts are sent to the blob store.
MaxUploads == 1
\* The product_images id sequence is used at most MaxImages times.
MaxImages == 5
\* The products id sequence is used at most MaxProducts times.
MaxProducts == 1
\* The categories id sequence is used at most MaxCategories times.
MaxCategories == 2

\* ---------------------------------------------------------------- domains
Sessions == {"s1"}
\* The clients whose requests can be in flight at the same time.
Clients == {"s1", "s2"}
UserIds == {1, 2}
ProductIds == {1, 2}
Prices == {10, 20}
OrderIds == 1..MaxOrders
Emails == {"ana@x", "eva@x"}

\* ---------------------------------------------------------------- python
\* Python truthiness of a JSON scalar: None, 0 and "" are falsy.
Truthy(v) == v \notin {None, "0", ""}

\* a or b
Or(a, b) == IF Truthy(a) THEN a ELSE b

\* int(v) / float(v) of a JSON scalar: defined on numerals only; any other
\* token raises ValueError (int(None) raises TypeError).
IntOf ==
    ("-1" :> -1) @@ ("0" :> 0) @@ ("1" :> 1) @@ ("2" :> 2) @@ ("3" :> 3) @@ ("5" :> 5)
    @@ ("9" :> 9) @@ ("40" :> 40) @@ ("50" :> 50) @@ ("99" :> 99)

Converts(v) == v \in DOMAIN IntOf

\* str.lower() on the status spellings in use
Lower(s) ==
    CASE s = "Finalizado" -> "finalizado"
      [] s = "FINALIZADO" -> "finalizado"
      [] s = "Pendiente" -> "pendiente"
      [] s = "En entrega" -> "en entrega"
      [] OTHER -> s

\* "No se pueden subir más de 4 imágenes por producto"
IMAGE_LIMIT == 4

\* ALLOWED_EXT
ALLOWED_EXT_AND_GIF == {".jpg", ".jpeg", ".png", ".webp", ".gif"}

ALLOWED_EXT == {".jpg", ".jpeg", ".png", ".webp"}

\* Path(file.filename).suffix.lower() if file.filename else ""
FileExt(filename) ==
    CASE filename = "r.png" -> ".png"
      [] filename = "R.PNG" -> ".png"
      [] filename = "r.jpeg" -> ".jpeg"
      [] filename = "r.gif" -> ".gif"
      [] filename = "r.PDF" -> ".pdf"
      [] OTHER -> ""

\* The keys create_order copies from the payload onto the Order row.
OrderKeys == {"nombre", "apellido", "direccion", "email", "telefono", "descripcion"}
ShippingKeys == OrderKeys \ {"descripcion"}

NoFields == [k \in OrderKeys |-> None]

\* ---------------------------------------------------------------- state
VARIABLES
    schemaEnforced,     \* whether the database enforces the constraints the models declare
    products,       \* products table: id -> <<>> (no row) or <<[name, price, stock]>>
    images,         \* product_images table
    categories,     \* categories table
    users,          \* users table: email -> <<>> (no row) or <<[password_hash, is_active]>>
    tokens,         \* the JWTs the server has signed so far
    orders,         \* orders table: committed rows
    items,          \* order_items table: committed rows
    comments,       \* comments table: committed rows
    blobs,          \* blob store: ids of the uploaded receipts
    tx,             \* per client: the request in flight (an open create_order transaction,
                    \* or a handler between its check and its commit)
    nextOrderId,    \* orders id sequence
    nextItemId,     \* order_items id sequence
    nextCommentId,  \* comments id sequence
    nextProductId,  \* products id sequence
    nextImageId,    \* product_images id sequence
    nextCategoryId, \* categories id sequence
    resp            \* the response of the request that returned last

vars == <<schemaEnforced, products, images, categories, users, tokens,
          orders, items, comments, blobs, tx,
          nextOrderId, nextItemId, nextCommentId,
          nextProductId, nextImageId, nextCategoryId, resp>>

\* What the catalog handlers write besides the products table.
catalog == <<images, categories, nextProductId, nextImageId, nextCategoryId>>

\* What the authentication handlers write.
accounts == <<users, tokens>>

store == <<products, orders, items, comments>>

Idle == [pc |-> "idle"]
NoResp == [op |-> "none", code |-> 0, rows |-> 0]

Init ==
    /\ schemaEnforced \in BOOLEAN
    /\ products = (1 :> <<[name |-> "a", price |-> 10, stock |-> 5]>>)
                  @@ (2 :> <<[name |-> "b", price |-> 20, stock |-> 5]>>)
    /\ images = {}
    /\ categories = {[id |-> 1, name |-> "c"]}
    /\ users = [e \in Emails |-> <<>>]
    /\ tokens = {}
    /\ orders = {}
    /\ items = {}
    /\ comments = {}
    /\ blobs = {}
    /\ tx = [s \in Clients |-> Idle]
    /\ nextOrderId = 1
    /\ nextItemId = 1
    /\ nextCommentId = 1
    /\ nextProductId = 3
    /\ nextImageId = 1
    /\ nextCategoryId = 2
    /\ resp = NoResp

\* ---------------------------------------------------------------- queries
\* select(Product).where(Product.id == pid) ... scalar_one_or_none()
ProductRow(pid) == IF pid \in DOMAIN products THEN products[pid] ELSE <<>>

\* select(Order).where(Order.id == oid) ... scalar_one_or_none()
OrderRows(oid) == {o \in orders : o.id = oid}

OrderItemsOf(oid) == {i \in items : i.order_id = oid}

\* Rows of an open transaction (visible to its own session only).
OpenTx == {s \in Clients : tx[s].pc = "open"}
TxItems(s) == {tx[s].items[k] : k \in 1..Len(tx[s].items)}

\* The order_items rows that occupy a place in the table's storage.
HeapRows == items \cup UNION {TxItems(s) : s \in OpenTx}

\* The last place of the table that holds a row (0 when it holds none).
LastPlace(rows) ==
    IF rows = {} THEN 0
    ELSE CHOOSE p \in {i.pos : i \in rows} : \A i \in rows : i.pos <= p

\* The places an INSERT into order_items can take: the end of the table, or
\* the place of a row that was deleted or rolled back. A SELECT without
\* ORDER BY returns the rows by place.
FreeSlots == {p \in 1..(LastPlace(HeapRows) + 1) : \A i \in HeapRows : i.pos # p}

\* ---------------------------------------------------------------- responses
\* rows: the rows the request had written (create_order) or deleted
\* (delete_order) when it returned.
Resp(op, code, rows) == [op |-> op, code |-> code, rows |-> rows]

\* ---------------------------------------------------------------- POST /order
\* The committed orders and items once the transaction of session s has been
\* rolled back (async with db.begin() leaving on an exception).
RolledBackPartial(s) == <<orders \cup {tx[s].order}, items>>

RolledBack(s) == <<orders, items>>

\* The committed orders and items once the transaction of session s has
\* committed (async with db.begin() leaving normally).
RECURSIVE LinesTotal(_)
LinesTotal(rows) ==
    IF rows = <<>> THEN 0
    ELSE Head(rows).price * Head(rows).quantity + LinesTotal(Tail(rows))

CommittedTotalFromItems(s) ==
    <<orders \cup {[tx[s].order EXCEPT !.total = LinesTotal(tx[s].items)]},
      items \cup TxItems(s)>>

CommittedItemsOnly(s) == <<orders, items \cup TxItems(s)>>

Committed(s) == <<orders \cup {tx[s].order}, items \cup TxItems(s)>>

\* The Order row built by create_order: status "pendiente", the non-null
\* payload fields, the receipt url if one was uploaded. created_at is the
\* server default now() of the INSERT; the clock and the id sequence both grow
\* from one request to the next, so the reading is taken from the id.
NewOrderFinalized(id, req, image) ==
    [id |-> id, user_id |-> IntOf[req.user_id], total |-> IntOf[req.price_order],
     status |-> "Finalizado", fields |-> req.fields, image |-> image,
     created_at |-> id]

NewOrderImageAlways(id, req, image) ==
    [id |-> id, user_id |-> IntOf[req.user_id], total |-> IntOf[req.price_order],
     status |-> "pendiente",
     fields |-> [k \in OrderKeys |-> req.fields[k]],
     image |-> <<Cardinality(blobs) + 1>>,
     created_at |-> id]

NewOrder(id, req, image) ==
    [id |-> id, user_id |-> IntOf[req.user_id], total |-> IntOf[req.price_order],
     status |-> "pendiente",
     fields |-> [k \in OrderKeys |-> req.fields[k]],
     image |-> image,
     created_at |-> id]

\* The validation of the payload: user_id, price_order and a non-empty list
\* of lines. payload.get("products") or ... or []: "list" is a JSON array of
\* req.nlines lines, any other truthy value is not a list.
InvalidNever(req) == FALSE

Invalid(req) ==
    LET user_id == Or(req.user_id, None)
        price_order == Or(req.price_order, None)
        prods == IF Truthy(req.products) THEN req.products ELSE "list"
        nlines == IF Truthy(req.products) THEN req.nlines ELSE 0
    IN  \/ user_id = None
        \/ price_order = None
        \/ prods # "list"
        \/ nlines = 0

\* Validation, receipt upload, then the start of the transaction: the Order
\* row is added and flushed (its id is drawn from the sequence).
create_order_begin(s, req) ==
    /\ tx[s].pc = "idle"
    /\ LET user_id == Or(req.user_id, None)
           price_order == Or(req.price_order, None)
           invalid == Invalid(req)
           hasFile == req.file # None
           badExt == hasFile /\ FileExt(req.file) \notin ALLOWED_EXT
           uploaded == hasFile /\ ~badExt /\ req.upload = "ok"
           url == Cardinality(blobs) + 1
           image == IF uploaded THEN <<url>> ELSE <<>>
       IN  IF invalid THEN
               /\ resp' = Resp("create_order", 400, 0)
               /\ UNCHANGED <<blobs, tx, nextOrderId>>
           ELSE IF badExt THEN
               /\ resp' = Resp("create_order", 406, 0)
               /\ UNCHANGED <<blobs, tx, nextOrderId>>
           ELSE IF hasFile /\ req.upload = "fail" THEN
               /\ resp' = Resp("create_order", 500, 0)
               /\ UNCHANGED <<blobs, tx, nextOrderId>>
           ELSE
               /\ uploaded => Cardinality(blobs) < MaxUploads
               /\ blobs' = IF uploaded THEN blobs \cup {url} ELSE blobs
               /\ IF ~Converts(user_id) \/ ~Converts(price_order) THEN
                      \* int(user_id) / float(price_order) raises inside the
                      \* transaction, before any row is added
                      /\ resp' = Resp("create_order", 500, 0)
                      /\ UNCHANGED <<tx, nextOrderId>>
                  ELSE
                      /\ nextOrderId <= MaxOrders
                      /\ tx' = [tx EXCEPT ![s] =
                                  [pc |-> "open",
                                   order |-> NewOrder(nextOrderId, req, image),
                                   items |-> <<>>,
                                   left |-> req.nlines]]
                      /\ nextOrderId' = nextOrderId + 1
                      /\ resp' = NoResp
    /\ UNCHANGED <<catalog, accounts>>
    /\ UNCHANGED <<schemaEnforced, products, orders, items, comments, nextItemId, nextCommentId>>

\* The unit price of a line: the product's price when the product exists,
\* else the client's price, else 0.
LinePriceClientFirst(line, p_obj) ==
    IF Truthy(line.precio) /\ Converts(line.precio) THEN IntOf[line.precio]
    ELSE IF p_obj # <<>> THEN p_obj[1].price ELSE 0

LinePrice(line, p_obj) ==
    IF p_obj # <<>> THEN p_obj[1].price ELSE IntOf[Or(line.precio, "0")]

\* What one iteration of the loop over the lines does:
\* "skip" (no product id: continue), "raise" (a conversion fails, or the
\* insert is rejected by the foreign key on product_id), "add".
LineOutcome(line) ==
    LET prod_id == Or(line.id_producto, None)
        cantidad == Or(line.cantidad, "1")
    IN  IF prod_id = None THEN "skip"
        ELSE IF ~Converts(prod_id) THEN "raise"
        ELSE IF ProductRow(IntOf[prod_id]) = <<>> /\ ~Converts(Or(line.precio, "0")) THEN "raise"
        ELSE IF ~Converts(cantidad) THEN "raise"
        ELSE IF schemaEnforced /\ ProductRow(IntOf[prod_id]) = <<>> THEN "raise"
        ELSE "add"

NewItem(id, order_id, line, pos) ==
    [id |-> id, pos |-> pos, order_id |-> order_id,
     product_id |-> IntOf[line.id_producto],
     quantity |-> IntOf[Or(line.cantidad, "1")],
     price |-> LinePrice(line, ProductRow(IntOf[line.id_producto])),
     talla |-> line.talla, color |-> line.color]

\* A variant that takes the ordered quantity from the product's stock.
ProductsAfterLineTakesStock(line) ==
    IF LineOutcome(line) = "add" /\ ProductRow(IntOf[line.id_producto]) # <<>>
    THEN [products EXCEPT ![IntOf[line.id_producto]] =
             <<[@[1] EXCEPT !.stock = @ - IntOf[Or(line.cantidad, "1")]]>>]
    ELSE products

\* The products table after one iteration: the loop reads the product and
\* writes nothing to it.
ProductsAfterLine(line) == products

\* One iteration of "for prod in products" inside the transaction.
create_order_line(s, line) ==
    /\ tx[s].pc = "open"
    /\ tx[s].left > 0
    /\ LET outcome == LineOutcome(line)
       IN  CASE outcome = "skip" ->
                 /\ tx' = [tx EXCEPT ![s].left = @ - 1]
                 /\ resp' = NoResp
                 /\ UNCHANGED <<orders, items, nextItemId>>
             [] outcome = "raise" ->
                 /\ orders' = RolledBack(s)[1]
                 /\ items' = RolledBack(s)[2]
                 /\ tx' = [tx EXCEPT ![s] = Idle]
                 /\ resp' = Resp("create_order", 500, 1 + Len(tx[s].items))
                 /\ UNCHANGED nextItemId
             [] outcome = "add" ->
                 /\ \E pos \in FreeSlots :
                       tx' = [tx EXCEPT
                                ![s].left = @ - 1,
                                ![s].items = Append(@, NewItem(nextItemId, tx[s].order.id,
                                                               line, pos))]
                 /\ nextItemId' = nextItemId + 1
                 /\ resp' = NoResp
                 /\ UNCHANGED <<orders, items>>
    /\ products' = ProductsAfterLine(line)
    /\ UNCHANGED <<catalog, accounts>>
    /\ UNCHANGED <<schemaEnforced, comments, blobs, nextOrderId, nextCommentId>>

\* The end of the "async with db.begin()" block: commit, then the 201.
create_order_commit(s) ==
    /\ tx[s].pc = "open"
    /\ tx[s].left = 0
    /\ orders' = Committed(s)[1]
    /\ items' = Committed(s)[2]
    /\ tx' = [tx EXCEPT ![s] = Idle]
    /\ resp' = Resp("create_order", 201, 1 + Len(tx[s].items))
    /\ UNCHANGED <<catalog, accounts>>
    /\ UNCHANGED <<schemaEnforced, products, comments, blobs, nextOrderId, nextItemId, nextCommentId>>

\* ---------------------------------------------------------------- PUT /orders/{order_id}
\* The Order row after update_order has applied the payload: status_order
\* and descripcion are the only keys the handler reads.
StatusRank(status) ==
    CASE Lower(status) = "pendiente" -> 1
      [] Lower(status) = "en entrega" -> 2
      [] Lower(status) = "finalizado" -> 3
      [] OTHER -> 0

UpdatedOrderForwardOnly(order, req) ==
    LET status_val == Or(req.status_order, None)
        descripcion == Or(req.descripcion, None)
    IN  [order EXCEPT
            !.status = IF status_val # None /\ StatusRank(status_val) >= StatusRank(@)
                       THEN status_val ELSE @,
            !.fields = IF descripcion # None
                       THEN [@ EXCEPT !["descripcion"] = descripcion]
                       ELSE @]

UpdatedOrder(order, req) ==
    LET status_val == Or(req.status_order, None)
        descripcion == Or(req.descripcion, None)
    IN  [order EXCEPT
            !.status = IF status_val # None THEN status_val ELSE @,
            !.fields = IF descripcion # None
                       THEN [@ EXCEPT !["descripcion"] = descripcion]
                       ELSE @]

update_order(order_id, req) ==
    /\ IF OrderRows(order_id) = {} THEN
           /\ resp' = Resp("update_order", 404, 0)
           /\ UNCHANGED orders
       ELSE
           /\ orders' = {IF o.id = order_id THEN UpdatedOrder(o, req) ELSE o : o \in orders}
           /\ resp' = Resp("update_order", 200, 0)
    /\ UNCHANGED <<catalog, accounts>>
    /\ UNCHANGED <<schemaEnforced, products, items, comments, blobs, tx,
                   nextOrderId, nextItemId, nextCommentId>>

\* ---------------------------------------------------------------- DELETE /orders/{order_id}
\* delete(OrderItem).where(OrderItem.order_id == order_id)
ItemsAfterDeleteKeepsAll(order_id) == items

ItemsAfterDelete(order_id) == {i \in items : i.order_id # order_id}

delete_order(order_id) ==
    /\ IF OrderRows(order_id) = {} THEN
           /\ resp' = Resp("delete_order", 404, 0)
           /\ UNCHANGED <<orders, items>>
       ELSE
           /\ items' = ItemsAfterDelete(order_id)
           /\ orders' = orders \ OrderRows(order_id)
           /\ resp' = Resp("delete_order", 204, Cardinality(OrderItemsOf(order_id)))
    /\ UNCHANGED <<catalog, accounts>>
    /\ UNCHANGED <<schemaEnforced, products, comments, blobs, tx,
                   nextOrderId, nextItemId, nextCommentId>>

\* ---------------------------------------------------------------- GET /orders, GET /orders/{order_id}
\* A variant that answers a placeholder snapshot for a product without row.
format_product_placeholder(product_id, product) ==
    IF product = <<>> THEN <<[id |-> product_id, precio |-> 0, stock |-> 0]>>
    ELSE <<[id |-> product_id, precio |-> product[1].price, stock |-> product[1].stock]>>

\* format_product_for_order: None (<<>>) when there is no product row.
format_product_for_order(product_id, product) ==
    IF product = <<>> THEN <<>>
    ELSE <<[id |-> product_id, precio |-> product[1].price, stock |-> product[1].stock]>>

\* select(OrderItem).where(OrderItem.order_id == order.id) ... all(): the rows
\* of the order as the table scan meets them.
RECURSIVE ScanByPlace(_)
ScanByPlace(rows) ==
    IF rows = {} THEN <<>>
    ELSE LET first == CHOOSE i \in rows : \A j \in rows : i.pos <= j.pos
         IN  <<first>> \o ScanByPlace(rows \ {first})

ScanReversed(rows) ==
    LET scan == ScanByPlace(rows)
    IN  [k \in 1..Len(scan) |-> scan[Len(scan) + 1 - k]]

\* select(Order).order_by(Order.created_at.desc()) ... all()
RECURSIVE OrdersByCreatedAtDesc(_)
OrdersByCreatedAtDesc(rows) ==
    IF rows = {} THEN <<>>
    ELSE LET first == CHOOSE o \in rows : \A q \in rows : o.created_at >= q.created_at
         IN  <<first>> \o OrdersByCreatedAtDesc(rows \ {first})

\* One "fila" of build_order_items_response.
BuildFila(order, item) ==
    LET prod == ProductRow(item.product_id)
        img_tx == order.image
    IN  [id |-> order.id,
         fecha |-> order.created_at,
         status |-> order.status,
         id_producto |-> format_product_for_order(item.product_id, prod),
         id_orden |-> [fields |-> order.fields,
                       image_transaccion |->
                           IF img_tx # <<>> THEN <<[secure_url |-> img_tx[1]]>> ELSE <<>>],
         talla |-> item.talla,
         color |-> item.color,
         cantidad |-> item.quantity,
         precio |-> item.price,
         order_item_id |-> item.id]

\* The rows of one order inside build_order_items_response.
BuildFilasOf(order) ==
    LET scan == ScanByPlace(OrderItemsOf(order.id))
    IN  [k \in 1..Len(scan) |-> BuildFila(order, scan[k])]

RECURSIVE Flatten(_)
Flatten(seqs) == IF seqs = <<>> THEN <<>> ELSE Head(seqs) \o Flatten(Tail(seqs))

\* build_order_items_response: one row per OrderItem, order after order.
build_order_items_response ==
    LET os == OrdersByCreatedAtDesc(orders)
    IN  Flatten([k \in 1..Len(os) |-> BuildFilasOf(os[k])])

\* filas_nuevo = [f for f in filas if f["id"] == new_order.id]
filas_nuevo(order_id) ==
    SelectSeq(build_order_items_response, LAMBDA f : f.id = order_id)

\* The item rows get_order walks through.
GetOrderScanReversed(order_id) == ScanReversed(OrderItemsOf(order_id))

GetOrderScan(order_id) == ScanByPlace(OrderItemsOf(order_id))

\* The list "filas" of get_order for an order that exists.
get_order_filas(order_id) ==
    LET order == CHOOSE o \in orders : o.id = order_id
        scan == GetOrderScan(order_id)
    IN  [k \in 1..Len(scan) |->
            LET item == scan[k]
                prod == ProductRow(item.product_id)
            IN  [id |-> order.id,
                 fecha |-> order.created_at,
                 status |-> order.status,
                 id_producto |-> IF prod # <<>>
                                 THEN format_product_for_order(item.product_id, prod)
                                 ELSE <<>>,
                 id_orden |-> [fields |-> order.fields,
                               image_transaccion |->
                                   IF order.image # <<>>
                                   THEN <<[secure_url |-> order.image[1]]>>
                                   ELSE <<>>],
                 talla |-> item.talla,
                 color |-> item.color,
                 cantidad |-> item.quantity,
                 precio |-> item.price,
                 order_item_id |-> item.id]]

\* GET /orders/{order_id}: rows is the number of rows returned.
get_order(order_id) ==
    /\ IF OrderRows(order_id) = {} THEN
           resp' = Resp("get_order", 404, 0)
       ELSE
           resp' = Resp("get_order", 200, Len(get_order_filas(order_id)))
    /\ UNCHANGED <<catalog, accounts>>
    /\ UNCHANGED <<schemaEnforced, products, orders, items, comments, blobs, tx,
                   nextOrderId, nextItemId, nextCommentId>>

\* GET /orders
get_orders ==
    /\ resp' = Resp("get_orders", 200, Len(build_order_items_response))
    /\ UNCHANGED <<catalog, accounts>>
    /\ UNCHANGED <<schemaEnforced, products, orders, items, comments, blobs, tx,
                   nextOrderId, nextItemId, nextCommentId>>

\* ---------------------------------------------------------------- PUT /products/{product_id}
\* precio and stock are optional (a sequence of length 0 when absent).
update_product_live_join(product_id, req) ==
    /\ ProductRow(product_id) # <<>>
    /\ req.precio # <<>>
    /\ products' = [products EXCEPT ![product_id] = <<[@[1] EXCEPT !.price = req.precio[1]]>>]
    /\ items' = {IF i.product_id = product_id THEN [i EXCEPT !.price = req.precio[1]] ELSE i
                 : i \in items}
    /\ resp' = Resp("update_product", 200, 0)
    /\ UNCHANGED <<catalog, accounts>>
    /\ UNCHANGED <<schemaEnforced, orders, comments, blobs, tx,
                   nextOrderId, nextItemId, nextCommentId>>

\* select(ProductImage).where(ProductImage.product_id == product_id)
ProductImagesOf(product_id) == {i \in images : i.product_id = product_id}

\* The rows db.add(ProductImage(...)) inserts for n uploaded files; the
\* handler decides which of them, if any, is the main one.
NewImages(product_id, n, first_is_main) ==
    {[id |-> nextImageId + k, product_id |-> product_id,
      is_main |-> first_is_main /\ k = 0] : k \in 0..(n - 1)}

\* update(ProductImage).where(ProductImage.id == img_data.id)
\*     .values(is_main=bool(img_data.is_main)), for each entry in turn.
RECURSIVE ApplyFlags(_, _)
ApplyFlags(imgs, flags) ==
    IF flags = <<>> THEN imgs
    ELSE ApplyFlags({IF i.id = Head(flags).id
                     THEN [i EXCEPT !.is_main = Head(flags).is_main] ELSE i : i \in imgs},
                    Tail(flags))

\* nombre_producto, precio and stock are optional (a sequence of length 0
\* when absent); nfiles is the number of files in the form, images the
\* entries of "images" in the JSON part that carry an id.
update_product(product_id, req) ==
    /\ IF ProductRow(product_id) = <<>> THEN
           /\ resp' = Resp("update_product", 404, 0)
           /\ UNCHANGED <<products, images, nextImageId>>
       ELSE IF req.nfiles > IMAGE_LIMIT THEN
           /\ resp' = Resp("update_product", 400, 0)
           /\ UNCHANGED <<products, images, nextImageId>>
       ELSE IF req.nfiles > 0 /\ req.upload = "fail" THEN
           \* the old rows are deleted and committed before the uploads
           /\ images' = images \ ProductImagesOf(product_id)
           /\ resp' = Resp("update_product", 500, 0)
           /\ UNCHANGED <<products, nextImageId>>
       ELSE
           /\ nextImageId + req.nfiles - 1 <= MaxImages
           /\ images' = ApplyFlags(
                  IF req.nfiles > 0
                  THEN (images \ ProductImagesOf(product_id))
                           \cup NewImages(product_id, req.nfiles, TRUE)
                  ELSE images,
                  req.images)
           /\ nextImageId' = nextImageId + req.nfiles
           /\ products' = [products EXCEPT ![product_id] =
                  <<[name |-> IF req.nombre_producto # <<>> THEN req.nombre_producto[1]
                              ELSE @[1].name,
                     price |-> IF req.precio # <<>> THEN req.precio[1] ELSE @[1].price,
                     stock |-> IF req.stock # <<>> THEN req.stock[1] ELSE @[1].stock]>>]
           /\ resp' = Resp("update_product", 200, 0)
    /\ UNCHANGED <<categories, nextProductId, nextCategoryId, accounts>>
    /\ UNCHANGED <<schemaEnforced, orders, items, comments, blobs, tx,
                   nextOrderId, nextItemId, nextCommentId>>

\* ---------------------------------------------------------------- DELETE /products/{product_id}
\* Rows that reference the product through a declared foreign key.
CommittedRefs(product_id) ==
    \/ \E i \in items : i.product_id = product_id
    \/ \E c \in comments : c.product_id = <<product_id>>

OpenRefs(product_id) ==
    \E s \in OpenTx : \E i \in TxItems(s) : i.product_id = product_id

delete_product(product_id) ==
    /\ IF ProductRow(product_id) = <<>> THEN
           /\ resp' = Resp("delete_product", 404, 0)
           /\ UNCHANGED <<products, images>>
       ELSE IF schemaEnforced /\ CommittedRefs(product_id) THEN
           \* the DELETE violates the foreign key: IntegrityError, rollback
           /\ resp' = Resp("delete_product", 500, 0)
           /\ UNCHANGED <<products, images>>
       ELSE
           \* a row inserted by an open transaction holds a lock on the product:
           \* the DELETE waits for that transaction to end
           /\ schemaEnforced => ~OpenRefs(product_id)
           /\ products' = [products EXCEPT ![product_id] = <<>>]
           \* cascade="all, delete-orphan" on Product.images
           /\ images' = images \ ProductImagesOf(product_id)
           /\ resp' = Resp("delete_product", 204, 0)
    /\ UNCHANGED <<categories, nextProductId, nextImageId, nextCategoryId, accounts>>
    /\ UNCHANGED <<schemaEnforced, orders, items, comments, blobs, tx,
                   nextOrderId, nextItemId, nextCommentId>>

\* ---------------------------------------------------------------- POST /products
\* select(Product).where(Product.name == nombre_producto)
ProductsNamed(name) ==
    {pid \in DOMAIN products : products[pid] # <<>> /\ products[pid][1].name = name}

\* select(Category).where(Category.id == category_id) ... scalar_one_or_none()
CategoryRows(category_id) == {c \in categories : c.id = category_id}

\* nfiles is the number of files of a multipart body (0 for a JSON body).
create_product(req) ==
    LET nombre_producto == Or(req.nombre_producto, None)
        precio == Or(req.precio, None)
        n == IF req.nfiles > IMAGE_LIMIT THEN IMAGE_LIMIT ELSE req.nfiles
    IN
    /\ IF ~Truthy(nombre_producto) \/ req.id_categoria = None \/ precio = None THEN
           /\ resp' = Resp("create_product", 400, 0)
           /\ UNCHANGED <<products, images, nextProductId, nextImageId>>
       ELSE IF ~Converts(req.id_categoria) THEN
           /\ resp' = Resp("create_product", 400, 0)
           /\ UNCHANGED <<products, images, nextProductId, nextImageId>>
       ELSE IF CategoryRows(IntOf[req.id_categoria]) = {} THEN
           /\ resp' = Resp("create_product", 404, 0)
           /\ UNCHANGED <<products, images, nextProductId, nextImageId>>
       ELSE IF req.nfiles > IMAGE_LIMIT THEN
           /\ resp' = Resp("create_product", 400, 0)
           /\ UNCHANGED <<products, images, nextProductId, nextImageId>>
       ELSE IF Cardinality(ProductsNamed(nombre_producto)) > 1 THEN
           \* scalar_one_or_none() raises MultipleResultsFound
           /\ resp' = Resp("create_product", 500, 0)
           /\ UNCHANGED <<products, images, nextProductId, nextImageId>>
       ELSE IF ProductsNamed(nombre_producto) # {} THEN
           /\ resp' = Resp("create_product", 400, 0)
           /\ UNCHANGED <<products, images, nextProductId, nextImageId>>
       ELSE IF ~Converts(precio) \/ ~Converts(Or(req.stock, "0")) THEN
           /\ resp' = Resp("create_product", 500, 0)
           /\ UNCHANGED <<products, images, nextProductId, nextImageId>>
       ELSE IF n > 0 /\ req.upload = "fail" THEN
           \* the flush has taken an id; nothing is committed
           /\ nextProductId < 3 + MaxProducts
           /\ nextProductId' = nextProductId + 1
           /\ resp' = Resp("create_product", 500, 0)
           /\ UNCHANGED <<products, images, nextImageId>>
       ELSE
           /\ nextProductId < 3 + MaxProducts
           /\ nextImageId + n - 1 <= MaxImages
           /\ products' = (nextProductId :> <<[name |-> nombre_producto,
                                               price |-> IntOf[precio],
                                               stock |-> IntOf[Or(req.stock, "0")]]>>)
                          @@ products
           /\ images' = images \cup NewImages(nextProductId, n, TRUE)
           /\ nextProductId' = nextProductId + 1
           /\ nextImageId' = nextImageId + n
           /\ resp' = Resp("create_product", 201, n)
    /\ UNCHANGED <<categories, nextCategoryId, accounts>>
    /\ UNCHANGED <<schemaEnforced, orders, items, comments, blobs, tx,
                   nextOrderId, nextItemId, nextCommentId>>

\* ---------------------------------------------------------------- POST /products/{product_id}/images
\* From the start to the count check; the uploads and the commit follow.
add_product_images_check(c, product_id, n) ==
    /\ tx[c] = Idle
    /\ IF ProductRow(product_id) = <<>> THEN
           /\ resp' = Resp("add_product_images", 404, 0)
           /\ UNCHANGED tx
       ELSE IF Cardinality(ProductImagesOf(product_id)) + n > IMAGE_LIMIT THEN
           /\ resp' = Resp("add_product_images", 400, 0)
           /\ UNCHANGED tx
       ELSE
           /\ tx' = [tx EXCEPT ![c] = [pc |-> "add_images", product_id |-> product_id, n |-> n]]
           /\ resp' = NoResp
    /\ UNCHANGED <<products, catalog, accounts>>
    /\ UNCHANGED <<schemaEnforced, orders, items, comments, blobs,
                   nextOrderId, nextItemId, nextCommentId>>

\* The uploads, db.add(ProductImage(..., is_main=False)) for each and the commit.
add_product_images_commit(c, upload) ==
    /\ tx[c].pc = "add_images"
    /\ IF upload = "fail" THEN
           /\ resp' = Resp("add_product_images", 500, 0)
           /\ UNCHANGED <<images, nextImageId>>
       ELSE IF schemaEnforced /\ ProductRow(tx[c].product_id) = <<>> THEN
           \* the product was deleted meanwhile: the INSERT violates the foreign key
           /\ nextImageId + tx[c].n - 1 <= MaxImages
           /\ nextImageId' = nextImageId + tx[c].n
           /\ resp' = Resp("add_product_images", 500, 0)
           /\ UNCHANGED images
       ELSE
           /\ nextImageId + tx[c].n - 1 <= MaxImages
           /\ images' = images \cup NewImages(tx[c].product_id, tx[c].n, FALSE)
           /\ nextImageId' = nextImageId + tx[c].n
           /\ resp' = Resp("add_product_images", 201, tx[c].n)
    /\ tx' = [tx EXCEPT ![c] = Idle]
    /\ UNCHANGED <<products, categories, nextProductId, nextCategoryId, accounts>>
    /\ UNCHANGED <<schemaEnforced, orders, items, comments, blobs,
                   nextOrderId, nextItemId, nextCommentId>>

\* ---------------------------------------------------------------- DELETE /products/{product_id}/images/{image_id}
delete_product_image(product_id, image_id) ==
    /\ IF ProductRow(product_id) = <<>> THEN
           /\ resp' = Resp("delete_product_image", 404, 0)
           /\ UNCHANGED images
       ELSE IF ~\E i \in ProductImagesOf(product_id) : i.id = image_id THEN
           /\ resp' = Resp("delete_product_image", 404, 0)
           /\ UNCHANGED images
       ELSE
           /\ images' = {i \in images : ~(i.id = image_id /\ i.product_id = product_id)}
           /\ resp' = Resp("delete_product_image", 204, 0)
    /\ UNCHANGED <<products, categories, nextProductId, nextImageId, nextCategoryId, accounts>>
    /\ UNCHANGED <<schemaEnforced, orders, items, comments, blobs, tx,
                   nextOrderId, nextItemId, nextCommentId>>

\* ---------------------------------------------------------------- PATCH /products/{product_id}/images/{image_id}/set-main
set_main_image(product_id, image_id) ==
    /\ IF ProductRow(product_id) = <<>> THEN
           /\ resp' = Resp("set_main_image", 404, 0)
           /\ UNCHANGED images
       ELSE IF ~\E i \in ProductImagesOf(product_id) : i.id = image_id THEN
           /\ resp' = Resp("set_main_image", 404, 0)
           /\ UNCHANGED images
       ELSE
           /\ images' = {IF i.product_id = product_id
                         THEN [i EXCEPT !.is_main = (i.id = image_id)] ELSE i : i \in images}
           /\ resp' = Resp("set_main_image", 200, 0)
    /\ UNCHANGED <<products, categories, nextProductId, nextImageId, nextCategoryId, accounts>>
    /\ UNCHANGED <<schemaEnforced, orders, items, comments, blobs, tx,
                   nextOrderId, nextItemId, nextCommentId>>

\* ---------------------------------------------------------------- POST /categories
\* select(Category).where(Category.name == name), without the row `except_id`
CategoriesNamed(name, except_id) ==
    {c \in categories : c.name = name /\ c.id # except_id}

\* From the start to the check of the name; the INSERT and the commit follow.
create_category_check(c, name) ==
    /\ tx[c] = Idle
    /\ IF Cardinality(CategoriesNamed(name, 0)) > 1 THEN
           \* scalar_one_or_none() raises MultipleResultsFound
           /\ resp' = Resp("create_category", 500, 0)
           /\ UNCHANGED tx
       ELSE IF CategoriesNamed(name, 0) # {} THEN
           /\ resp' = Resp("create_category", 400, 0)
           /\ UNCHANGED tx
       ELSE
           /\ tx' = [tx EXCEPT ![c] = [pc |-> "create_category", name |-> name]]
           /\ resp' = NoResp
    /\ UNCHANGED <<products, catalog, accounts>>
    /\ UNCHANGED <<schemaEnforced, orders, items, comments, blobs,
                   nextOrderId, nextItemId, nextCommentId>>

create_category_commit(c) ==
    /\ tx[c].pc = "create_category"
    /\ nextCategoryId < 2 + MaxCategories
    /\ categories' = categories \cup {[id |-> nextCategoryId, name |-> tx[c].name]}
    /\ nextCategoryId' = nextCategoryId + 1
    /\ tx' = [tx EXCEPT ![c] = Idle]
    /\ resp' = Resp("create_category", 201, 1)
    /\ UNCHANGED <<products, images, nextProductId, nextImageId, accounts>>
    /\ UNCHANGED <<schemaEnforced, orders, items, comments, blobs,
                   nextOrderId, nextItemId, nextCommentId>>

\* ---------------------------------------------------------------- PUT /categories/{category_id}
\* name is optional (a sequence of length 0 when the body does not set it).
update_category_check(c, category_id, req) ==
    /\ tx[c] = Idle
    /\ IF CategoryRows(category_id) = {} THEN
           /\ resp' = Resp("update_category", 404, 0)
           /\ UNCHANGED tx
       ELSE IF req.name # <<>> /\ Cardinality(CategoriesNamed(req.name[1], category_id)) > 1 THEN
           /\ resp' = Resp("update_category", 500, 0)
           /\ UNCHANGED tx
       ELSE IF req.name # <<>> /\ CategoriesNamed(req.name[1], category_id) # {} THEN
           /\ resp' = Resp("update_category", 400, 0)
           /\ UNCHANGED tx
       ELSE
           /\ tx' = [tx EXCEPT ![c] = [pc |-> "update_category",
                                       category_id |-> category_id, name |-> req.name]]
           /\ resp' = NoResp
    /\ UNCHANGED <<products, catalog, accounts>>
    /\ UNCHANGED <<schemaEnforced, orders, items, comments, blobs,
                   nextOrderId, nextItemId, nextCommentId>>

\* setattr(category, field, value) for the fields of the body, and the commit.
update_category_commit(c) ==
    /\ tx[c].pc = "update_category"
    /\ categories' = {IF k.id = tx[c].category_id /\ tx[c].name # <<>>
                      THEN [k EXCEPT !.name = tx[c].name[1]] ELSE k : k \in categories}
    /\ tx' = [tx EXCEPT ![c] = Idle]
    /\ resp' = Resp("update_category", 200, 1)
    /\ UNCHANGED <<products, images, nextProductId, nextImageId, nextCategoryId, accounts>>
    /\ UNCHANGED <<schemaEnforced, orders, items, comments, blobs,
                   nextOrderId, nextItemId, nextCommentId>>

\* ---------------------------------------------------------------- reviews
\* id_producto may come as "product:<n>": the digits after the prefix.
ProductToken(v) ==
    CASE v = "product:1" -> "1"
      [] v = "product:2" -> "2"
      [] OTHER -> v

\* select(OrderItem).join(Order).where(Order.user_id == user_id,
\*   func.lower(Order.status) == "finalizado", OrderItem.product_id == product_id)
user_bought_any_status(user_id, product_id) ==
    \E i \in items : \E o \in orders :
        /\ i.order_id = o.id
        /\ o.user_id = user_id
        /\ i.product_id = product_id

user_bought_product_and_finalized(user_id, product_id) ==
    \E i \in items : \E o \in orders :
        /\ i.order_id = o.id
        /\ o.user_id = user_id
        /\ Lower(o.status) = "finalizado"
        /\ i.product_id = product_id

\* select(Order).where(Order.user_id == user_id, func.lower(Order.status) == "finalizado")
any_user_has_finalized_order(user_id) ==
    \E o \in orders : Lower(o.status) = "finalizado"

user_has_any_finalized_order(user_id) ==
    \E o \in orders :
        /\ o.user_id = user_id
        /\ Lower(o.status) = "finalizado"

\* The INSERT of a Comment row is rejected when the database enforces the
\* declared constraints and the rating is outside 1..5 or the product row
\* does not exist.
CommentRejected(product_id, rating) ==
    /\ schemaEnforced
    /\ \/ rating < 1
       \/ rating > 5
       \/ (product_id # <<>> /\ ProductRow(product_id[1]) = <<>>)

NewComment(id, user_id, product_id, rating) ==
    [id |-> id, user_id |-> user_id, product_id |-> product_id, rating |-> rating]

\* POST /comments of routers/comments.py
comments_create_comment(req) ==
    /\ LET descripcion == Or(req.descripcion, None)
           calificacion == Or(req.calificacion, None)
           user_id == Or(req.user_id, None)
           raw == Or(req.id_producto, None)
           id_producto == ProductToken(raw)
       IN  IF user_id = None \/ raw = None \/ calificacion = None \/ descripcion = None THEN
               /\ resp' = Resp("comments.create_comment", 400, 0)
               /\ UNCHANGED <<comments, nextCommentId>>
           ELSE IF ~Converts(user_id) \/ ~Converts(id_producto) THEN
               /\ resp' = Resp("comments.create_comment", 500, 0)
               /\ UNCHANGED <<comments, nextCommentId>>
           ELSE IF ~user_bought_product_and_finalized(IntOf[user_id], IntOf[id_producto]) THEN
               /\ resp' = Resp("comments.create_comment", 406, 0)
               /\ UNCHANGED <<comments, nextCommentId>>
           ELSE IF ~Converts(calificacion) THEN
               /\ resp' = Resp("comments.create_comment", 500, 0)
               /\ UNCHANGED <<comments, nextCommentId>>
           ELSE
               /\ nextCommentId <= MaxComments
               /\ nextCommentId' = nextCommentId + 1
               /\ IF CommentRejected(<<IntOf[id_producto]>>, IntOf[calificacion]) THEN
                      /\ resp' = Resp("comments.create_comment", 500, 0)
                      /\ UNCHANGED comments
                  ELSE
                      /\ comments' = comments \cup
                            {NewComment(nextCommentId, IntOf[user_id],
                                        <<IntOf[id_producto]>>, IntOf[calificacion])}
                      /\ resp' = Resp("comments.create_comment", 201, 0)
    /\ UNCHANGED <<catalog, accounts>>
    /\ UNCHANGED <<schemaEnforced, products, orders, items, blobs, tx, nextOrderId, nextItemId>>

\* POST /comments-general of routers/comments.py
create_comment_general(req) ==
    /\ LET descripcion == Or(req.descripcion, None)
           calificacion == Or(req.calificacion, None)
           user_id == Or(req.user_id, None)
       IN  IF user_id = None \/ calificacion = None \/ descripcion = None THEN
               /\ resp' = Resp("comments.create_comment_general", 400, 0)
               /\ UNCHANGED <<comments, nextCommentId>>
           ELSE IF ~Converts(user_id) THEN
               /\ resp' = Resp("comments.create_comment_general", 500, 0)
               /\ UNCHANGED <<comments, nextCommentId>>
           ELSE IF ~user_has_any_finalized_order(IntOf[user_id]) THEN
               /\ resp' = Resp("comments.create_comment_general", 406, 0)
               /\ UNCHANGED <<comments, nextCommentId>>
           ELSE IF ~Converts(calificacion) THEN
               /\ resp' = Resp("comments.create_comment_general", 500, 0)
               /\ UNCHANGED <<comments, nextCommentId>>
           ELSE
               /\ nextCommentId <= MaxComments
               /\ nextCommentId' = nextCommentId + 1
               /\ IF CommentRejected(<<>>, IntOf[calificacion]) THEN
                      /\ resp' = Resp("comments.create_comment_general", 500, 0)
                      /\ UNCHANGED comments
                  ELSE
                      /\ comments' = comments \cup
                            {NewComment(nextCommentId, IntOf[user_id], <<>>, IntOf[calificacion])}
                      /\ resp' = Resp("comments.create_comment_general", 201, 0)
    /\ UNCHANGED <<catalog, accounts>>
    /\ UNCHANGED <<schemaEnforced, products, orders, items, blobs, tx, nextOrderId, nextItemId>>

\* POST /comments of routers/orders_comments.py, the router main.py mounts
\* (routers/comment.py holds the same handler): the body is a CommentCreate
\* (user_id, product_id, rating: int; comment: str) and the row is inserted.
orders_comments_create_comment(req) ==
    /\ IF ~Converts(req.user_id) \/ ~Converts(req.product_id) \/ ~Converts(req.rating)
          \/ req.comment = None THEN
           /\ resp' = Resp("orders_comments.create_comment", 422, 0)
           /\ UNCHANGED <<comments, nextCommentId>>
       ELSE
           /\ nextCommentId <= MaxComments
           /\ nextCommentId' = nextCommentId + 1
           /\ IF CommentRejected(<<IntOf[req.product_id]>>, IntOf[req.rating]) THEN
                  /\ resp' = Resp("orders_comments.create_comment", 500, 0)
                  /\ UNCHANGED comments
              ELSE
                  /\ comments' = comments \cup
                        {NewComment(nextCommentId, IntOf[req.user_id],
                                    <<IntOf[req.product_id]>>, IntOf[req.rating])}
                  /\ resp' = Resp("orders_comments.create_comment", 201, 0)
    /\ UNCHANGED <<catalog, accounts>>
    /\ UNCHANGED <<schemaEnforced, products, orders, items, blobs, tx, nextOrderId, nextItemId>>

\* ---------------------------------------------------------------- POST /orders (mounted router)
\* The body is an OrderCreate: user_id int, total float, status str
\* ("pendiente" when absent), items: list of (product_id int, quantity int,
\* price float). Any other body is answered 422 before the handler runs.
OrderCreateValid(req) ==
    /\ Converts(req.user_id)
    /\ Converts(req.total)
    /\ \A k \in 1..Len(req.items) :
          /\ Converts(req.items[k].product_id)
          /\ Converts(req.items[k].quantity)
          /\ Converts(req.items[k].price)

\* The second commit is rejected when the database enforces the foreign key
\* of order_items.product_id and a line names a product that has no row.
ItemsCommitFails(req) ==
    /\ schemaEnforced
    /\ \E k \in 1..Len(req.items) : ProductRow(IntOf[req.items[k].product_id]) = <<>>

\* Order(user_id=order.user_id, total=order.total, status=order.status)
OrderCreateRow(id, req) ==
    [id |-> id, user_id |-> IntOf[req.user_id], total |-> IntOf[req.total],
     status |-> IF req.status = None THEN "pendiente" ELSE req.status,
     fields |-> NoFields, image |-> <<>>, created_at |-> id]

\* OrderItem(order_id=new_order.id, **item.dict()) for each line, the k-th
\* line taking the place place[k].
OrderCreateItems(order_id, req, place) ==
    {[id |-> nextItemId + k - 1, pos |-> place[k], order_id |-> order_id,
      product_id |-> IntOf[req.items[k].product_id],
      quantity |-> IntOf[req.items[k].quantity],
      price |-> IntOf[req.items[k].price],
      talla |-> None, color |-> None] : k \in 1..Len(req.items)}

\* The places the inserts of n rows, one after the other, can take.
FreePlaces(n) ==
    {place \in [1..n -> 1..(LastPlace(HeapRows) + n)] :
        /\ \A k \in 1..n : \A i \in HeapRows : i.pos # place[k]
        /\ \A k, l \in 1..n : k # l => place[k] # place[l]
        /\ \A k \in 1..n :
              \/ place[k] <= LastPlace(HeapRows) + 1
              \/ \E l \in 1..(k - 1) : place[l] = place[k] - 1}

\* The Order is added and committed; then the items are added and committed.
\* The 201 body is built from the ORM object after the second commit: the
\* answer is 201, or 500 when building it fails.
orders_comments_create_order(req) ==
    /\ IF ~OrderCreateValid(req) THEN
           /\ resp' = Resp("orders_comments.create_order", 422, 0)
           /\ UNCHANGED <<orders, items, nextOrderId, nextItemId>>
       ELSE
           /\ nextOrderId <= MaxOrders
           /\ nextOrderId' = nextOrderId + 1
           /\ orders' = orders \cup {OrderCreateRow(nextOrderId, req)}
           /\ nextItemId' = nextItemId + Len(req.items)
           /\ IF ItemsCommitFails(req) THEN
                  /\ resp' = Resp("orders_comments.create_order", 500, 1)
                  /\ UNCHANGED items
              ELSE
                  /\ \E place \in FreePlaces(Len(req.items)) :
                        items' = items \cup OrderCreateItems(nextOrderId, req, place)
                  /\ \E code \in {201, 500} :
                        resp' = Resp("orders_comments.create_order", code,
                                     1 + Len(req.items))
    /\ UNCHANGED <<catalog, accounts>>
    /\ UNCHANGED <<schemaEnforced, products, comments, blobs, tx, nextCommentId>>

\* ---------------------------------------------------------------- authentication
\* pwd_context.hash(password): a bcrypt hash, made with a fresh salt.
get_password_hash(password, salt) == [bcrypt |-> password, salt |-> salt]

\* pwd_context.verify(plain_password, hashed_password)
verify_password(plain_password, hashed_password) ==
    hashed_password.bcrypt = plain_password

\* RegisterForm / PasswordUpdate validators on the password
PasswordValid(password) == password # "weak"

\* jwt.encode(data + exp, SECRET_KEY); purpose is None when data has none.
create_access_token(sub, purpose) == [sub |-> sub, purpose |-> purpose, sig |-> "ok"]

\* jwt.decode(token, SECRET_KEY): <<>> stands for JWTError (bad signature or
\* expired), else the payload.
jwt_decode(token, expired) ==
    IF token.sig # "ok" \/ expired THEN <<>>
    ELSE <<[sub |-> token.sub, purpose |-> token.purpose]>>

\* get_user_by_email: <<>> when there is no row.
get_user_by_email(email) == IF email \in DOMAIN users THEN users[email] ELSE <<>>

\* A variant of the activity check of login that lets every account in.
LoginAllowedAlways(user) == TRUE

\* if not user.is_active: 403
LoginAllowed(user) == user.is_active

\* A variant that accepts a token of any purpose.
AnyPurpose(purpose) == TRUE

\* purpose != "password_recovery": 400
RecoveryPurpose(purpose) == purpose = "password_recovery"

\* POST /register; mail is "unconfigured" when EMAIL_SENDER or
\* EMAIL_PASSWORD is not set.
register(req) ==
    /\ IF ~PasswordValid(req.password) THEN
           /\ resp' = Resp("register", 422, 0)
           /\ UNCHANGED <<users, tokens>>
       ELSE IF get_user_by_email(req.email) # <<>> THEN
           /\ resp' = Resp("register", 409, 0)
           /\ UNCHANGED <<users, tokens>>
       ELSE
           /\ users' = [users EXCEPT ![req.email] =
                  <<[password_hash |-> get_password_hash(req.password, req.salt),
                     is_active |-> FALSE]>>]
           /\ IF req.mail = "unconfigured" THEN
                  \* RuntimeError after the commit; the token is never sent
                  /\ resp' = Resp("register", 500, 0)
                  /\ UNCHANGED tokens
              ELSE
                  /\ tokens' = tokens \cup {create_access_token(req.email, "email_verification")}
                  /\ resp' = Resp("register", 200, 1)
    /\ UNCHANGED <<products, catalog>>
    /\ UNCHANGED <<schemaEnforced, orders, items, comments, blobs, tx,
                   nextOrderId, nextItemId, nextCommentId>>

\* POST /login
login(form_data) ==
    LET user == get_user_by_email(form_data.email)
    IN
    /\ IF user = <<>> \/ ~verify_password(form_data.password, user[1].password_hash) THEN
           /\ resp' = Resp("login", 401, 0)
           /\ UNCHANGED tokens
       ELSE IF ~LoginAllowed(user[1]) THEN
           /\ resp' = Resp("login", 403, 0)
           /\ UNCHANGED tokens
       ELSE
           /\ tokens' = tokens \cup {create_access_token(form_data.email, None)}
           /\ resp' = Resp("login", 200, 1)
    /\ UNCHANGED <<products, catalog, users>>
    /\ UNCHANGED <<schemaEnforced, orders, items, comments, blobs, tx,
                   nextOrderId, nextItemId, nextCommentId>>

\* GET /check-email/{token}
verify_email(token, expired) ==
    LET payload == jwt_decode(token, expired)
        user == IF payload = <<>> THEN <<>> ELSE get_user_by_email(payload[1].sub)
    IN
    /\ IF payload = <<>> THEN
           /\ resp' = Resp("verify_email", 400, 0)
           /\ UNCHANGED users
       ELSE IF payload[1].sub = None \/ payload[1].purpose # "email_verification" THEN
           /\ resp' = Resp("verify_email", 400, 0)
           /\ UNCHANGED users
       ELSE IF user = <<>> THEN
           /\ resp' = Resp("verify_email", 400, 0)
           /\ UNCHANGED users
       ELSE IF user[1].is_active THEN
           /\ resp' = Resp("verify_email", 400, 0)
           /\ UNCHANGED users
       ELSE
           /\ users' = [users EXCEPT ![payload[1].sub] = <<[@[1] EXCEPT !.is_active = TRUE]>>]
           /\ resp' = Resp("verify_email", 200, 1)
    /\ UNCHANGED <<products, catalog, tokens>>
    /\ UNCHANGED <<schemaEnforced, orders, items, comments, blobs, tx,
                   nextOrderId, nextItemId, nextCommentId>>

\* POST /recover-password
recover_password(email, mail) ==
    LET user == get_user_by_email(email)
    IN
    /\ IF user = <<>> THEN
           /\ resp' = Resp("recover_password", 404, 0)
           /\ UNCHANGED tokens
       ELSE IF ~user[1].is_active THEN
           /\ resp' = Resp("recover_password", 422, 0)
           /\ UNCHANGED tokens
       ELSE IF mail = "unconfigured" THEN
           /\ resp' = Resp("recover_password", 500, 0)
           /\ UNCHANGED tokens
       ELSE
           /\ tokens' = tokens \cup {create_access_token(email, "password_recovery")}
           /\ resp' = Resp("recover_password", 200, 1)
    /\ UNCHANGED <<products, catalog, users>>
    /\ UNCHANGED <<schemaEnforced, orders, items, comments, blobs, tx,
                   nextOrderId, nextItemId, nextCommentId>>

\* POST /new-password/{token}
new_password(token, expired, data) ==
    LET payload == jwt_decode(token, expired)
        user == IF payload = <<>> THEN <<>> ELSE get_user_by_email(payload[1].sub)
    IN
    /\ IF ~PasswordValid(data.new_password) THEN
           /\ resp' = Resp("new_password", 422, 0)
           /\ UNCHANGED users
       ELSE IF payload = <<>> THEN
           /\ resp' = Resp("new_password", 400, 0)
           /\ UNCHANGED users
       ELSE IF ~Truthy(payload[1].sub) \/ ~RecoveryPurpose(payload[1].purpose) THEN
           /\ resp' = Resp("new_password", 400, 0)
           /\ UNCHANGED users
       ELSE IF user = <<>> THEN
           /\ resp' = Resp("new_password", 404, 0)
           /\ UNCHANGED users
       ELSE IF data.new_password # data.confirm_password THEN
           /\ resp' = Resp("new_password", 400, 0)
           /\ UNCHANGED users
       ELSE IF verify_password(data.new_password, user[1].password_hash) THEN
           /\ resp' = Resp("new_password", 406, 0)
           /\ UNCHANGED users
       ELSE
           /\ users' = [users EXCEPT ![payload[1].sub] =
                  <<[@[1] EXCEPT !.password_hash =
                         get_password_hash(data.new_password, data.salt)]>>]
           /\ resp' = Resp("new_password", 200, 1)
    /\ UNCHANGED <<products, catalog, tokens>>
    /\ UNCHANGED <<schemaEnforced, orders, items, comments, blobs, tx,
                   nextOrderId, nextItemId, nextCommentId>>

\* ---------------------------------------------------------------- requests
\* POST /order bodies: user id present, absent or malformed; 0..MaxLines lines.
OrderReqs ==
    [user_id : {None, "1", "x"}, price_order : {"40"}, products : {"list"}, nlines : 0..MaxLines,
     fields : {NoFields}, file : {None}, upload : {"ok"}]

\* One line of a POST /order body: product id present, absent or malformed,
\* quantity absent or malformed, a client price.
Lines ==
    [id_producto : {None, "1", "x"}, cantidad : {None, "x"},
     precio : {"99"}, talla : {None}, color : {None}]

\* PUT /products/{id} bodies: precio absent or one of the prices.
ProductReqs ==
    [nombre_producto : {<<>>}, precio : {<<>>} \cup {<<p>> : p \in Prices}, stock : {<<>>},
     nfiles : {0}, upload : {"ok"}, images : {<<>>}]

\* PUT /orders/{id} bodies that set the status.
StatusReqs == [status_order : {"En entrega"}, descripcion : {None}, fields : {NoFields}]

\* ---------------------------------------------------------------- order aggregate
\* Creation (with its failures), deletion, and the deletion of a product
\* that interleaves with an open transaction.
Next ==
    \/ \E s \in Sessions : \E req \in OrderReqs : create_order_begin(s, req)
    \/ \E s \in Sessions : \E line \in Lines : create_order_line(s, line)
    \/ \E s \in Sessions : create_order_commit(s)
    \/ \E id \in OrderIds : delete_order(id)
    \/ delete_product(1)

Spec == Init /\ [][Next]_vars

\* ---------------------------------------------------------------- price snapshot
\* One-line orders of products 1 and 2, and every later operation on the order
\* and on the catalog.
PriceOrderReqs ==
    [user_id : {"1"}, price_order : {"40"}, products : {"list"}, nlines : {1},
     fields : {NoFields}, file : {None}, upload : {"ok"}]

PriceLines ==
    [id_producto : {"1", "2"}, cantidad : {None},
     precio : {"99"}, talla : {None}, color : {None}]

NextPrice ==
    \/ \E s \in Sessions : \E req \in PriceOrderReqs : create_order_begin(s, req)
    \/ \E s \in Sessions : \E line \in PriceLines : create_order_line(s, line)
    \/ \E s \in Sessions : create_order_commit(s)
    \/ \E id \in OrderIds : \E req \in StatusReqs : update_order(id, req)
    \/ \E id \in OrderIds : delete_order(id)
    \/ \E pid \in ProductIds : \E req \in ProductReqs : update_product(pid, req)
    \/ \E pid \in ProductIds : delete_product(pid)

SpecPrice == Init /\ [][NextPrice]_vars

\* ---------------------------------------------------------------- order update
\* Orders created with or without shipping data, then PUT /orders/{id} with
\* every combination of status, descripcion and shipping edits.
FullFields == [k \in OrderKeys |-> "a"]

NombreEdit == [NoFields EXCEPT !["nombre"] = "b"]

ShippingEdit == [k \in OrderKeys |-> IF k \in ShippingKeys THEN "b" ELSE None]

UpdOrderReqs ==
    [user_id : {"1"}, price_order : {"40"}, products : {"list"}, nlines : {1},
     fields : {NoFields, FullFields}, file : {None}, upload : {"ok"}]

UpdLines ==
    [id_producto : {"1"}, cantidad : {None},
     precio : {None}, talla : {None}, color : {None}]

UpdateReqs ==
    [status_order : {None, "pendiente", "En entrega", "Finalizado"},
     descripcion : {None, "d"},
     fields : {NoFields, NombreEdit, ShippingEdit}]

NextUpdate ==
    \/ \E s \in Sessions : \E req \in UpdOrderReqs : create_order_begin(s, req)
    \/ \E s \in Sessions : \E line \in UpdLines : create_order_line(s, line)
    \/ \E s \in Sessions : create_order_commit(s)
    \/ \E id \in OrderIds : \E req \in UpdateReqs : update_order(id, req)
    \/ \E id \in OrderIds : delete_order(id)

SpecUpdate == Init /\ [][NextUpdate]_vars

\* ---------------------------------------------------------------- reviews
\* Orders of user 1 holding one product, the status changes of PUT /orders/{id},
\* and the three handlers that create a Comment.
ReviewOrderReqs ==
    [user_id : {"1"}, price_order : {"40"}, products : {"list"}, nlines : {1},
     fields : {NoFields}, file : {None}, upload : {"ok"}]

ReviewLines ==
    [id_producto : {"1", "2"}, cantidad : {None},
     precio : {None}, talla : {None}, color : {None}]

ReviewStatusReqs ==
    [status_order : {"En entrega", "FINALIZADO"},
     descripcion : {None}, fields : {NoFields}]

\* POST /comments bodies of routers/comments.py
CommentReqs ==
    [user_id : {"1", "2"}, id_producto : {None, "1", "product:2", "x"},
     calificacion : {"5", "x"}, descripcion : {"ok"}]

\* POST /comments-general bodies
GeneralReqs ==
    [user_id : {None, "1", "2"}, calificacion : {"5", "9"}, descripcion : {"ok"}]

\* POST /comments bodies of the mounted router (CommentCreate)
MountedReqs ==
    [user_id : {"1", "2"}, product_id : {"1", "x"}, rating : {"5"}, comment : {"ok"}]

NextReview ==
    \/ \E s \in Sessions : \E req \in ReviewOrderReqs : create_order_begin(s, req)
    \/ \E s \in Sessions : \E line \in ReviewLines : create_order_line(s, line)
    \/ \E s \in Sessions : create_order_commit(s)
    \/ \E id \in OrderIds : \E req \in ReviewStatusReqs : update_order(id, req)
    \/ \E id \in OrderIds : delete_order(id)
    \/ \E req \in CommentReqs : comments_create_comment(req)

SpecReview == Init /\ [][NextReview]_vars

\* The same orders with the general reviews.
NextGeneral ==
    \/ \E s \in Sessions : \E req \in ReviewOrderReqs : create_order_begin(s, req)
    \/ \E s \in Sessions : \E line \in ReviewLines : create_order_line(s, line)
    \/ \E s \in Sessions : create_order_commit(s)
    \/ \E id \in OrderIds : \E req \in ReviewStatusReqs : update_order(id, req)
    \/ \E id \in OrderIds : delete_order(id)
    \/ \E req \in GeneralReqs : create_comment_general(req)

SpecGeneral == Init /\ [][NextGeneral]_vars

\* The same orders with the reviews of the mounted router.
NextMounted ==
    \/ \E s \in Sessions : \E req \in ReviewOrderReqs : create_order_begin(s, req)
    \/ \E s \in Sessions : \E line \in ReviewLines : create_order_line(s, line)
    \/ \E s \in Sessions : create_order_commit(s)
    \/ \E id \in OrderIds : \E req \in ReviewStatusReqs : update_order(id, req)
    \/ \E id \in OrderIds : delete_order(id)
    \/ \E req \in MountedReqs : orders_comments_create_comment(req)

SpecMounted == Init /\ [][NextMounted]_vars

\* ---------------------------------------------------------------- read model
\* Orders of one or two lines, with and without a receipt, with lines of a
\* product that exists and of one that does not, and GET /orders/{id}.
ReadOrderReqs ==
    [user_id : {"1"}, price_order : {"40"}, products : {"list"}, nlines : {1, 2},
     fields : {NoFields}, file : {None, "r.png"}, upload : {"ok"}]

ReadLines ==
    [id_producto : {"1", "3"}, cantidad : {None},
     precio : {None}, talla : {None}, color : {None}]

NextRead ==
    \/ \E s \in Sessions : \E req \in ReadOrderReqs : create_order_begin(s, req)
    \/ \E s \in Sessions : \E line \in ReadLines : create_order_line(s, line)
    \/ \E s \in Sessions : create_order_commit(s)
    \/ \E id \in OrderIds : delete_order(id)
    \/ \E id \in OrderIds : get_order(id)

SpecRead == Init /\ [][NextRead]_vars

\* ---------------------------------------------------------------- listing
\* Orders of one or two lines, their deletion, and GET /orders.
ListingOrderReqs ==
    [user_id : {"1"}, price_order : {"40"}, products : {"list"}, nlines : {1, 2},
     fields : {NoFields}, file : {None}, upload : {"ok"}]

NextListing ==
    \/ \E s \in Sessions : \E req \in ListingOrderReqs : create_order_begin(s, req)
    \/ \E s \in Sessions : \E line \in UpdLines : create_order_line(s, line)
    \/ \E s \in Sessions : create_order_commit(s)
    \/ \E id \in OrderIds : delete_order(id)
    \/ get_orders

SpecListing == Init /\ [][NextListing]_vars

\* ---------------------------------------------------------------- mounted order creation
\* POST /orders of the mounted router with lines of a product that exists and
\* of one that does not.
OrderItemCreates ==
    [product_id : {"1", "3"}, quantity : {"1"}, price : {"99"}]

OrderCreates ==
    [user_id : {"1", "x"}, total : {"40"}, status : {None, "Finalizado"},
     items : UNION {[1..n -> OrderItemCreates] : n \in 0..MaxLines}]

NextMountedOrder ==
    \/ \E req \in OrderCreates : orders_comments_create_order(req)
    \/ \E id \in OrderIds : delete_order(id)
    \/ \E id \in OrderIds : get_order(id)

SpecMountedOrder == Init /\ [][NextMountedOrder]_vars

\* ---------------------------------------------------------------- receipt upload
\* Complete payloads, with or without a receipt whose name has an allowed
\* extension (in capitals), a refused one or none, the upload succeeding or
\* failing; and payloads with one part missing, with or without a receipt.
\* A line names product 1 or is malformed.
CompleteUploadReqs ==
    [user_id : {"1"}, price_order : {"40"}, products : {"list"}, nlines : {1},
     fields : {NoFields}, file : {None, "R.PNG", "r.gif", "r"}, upload : {"ok", "fail"}]

IncompleteUploadReqs ==
    {req \in [user_id : {None, "1"}, price_order : {None, "40"},
              products : {None, "str", "list"}, nlines : 0..1,
              fields : {NoFields}, file : {None, "R.PNG", "r.gif"}, upload : {"ok"}] :
        \/ req.user_id = None /\ req.price_order = "40" /\ req.products = "list" /\ req.nlines = 1
        \/ req.user_id = "1" /\ req.price_order = None /\ req.products = "list" /\ req.nlines = 1
        \/ req.user_id = "1" /\ req.price_order = "40" /\ req.products # "list" /\ req.nlines = 1
        \/ req.user_id = "1" /\ req.price_order = "40" /\ req.products = "list" /\ req.nlines = 0}

UploadOrderReqs == CompleteUploadReqs \cup IncompleteUploadReqs

UploadLines ==
    [id_producto : {"1", "x"}, cantidad : {None},
     precio : {None}, talla : {None}, color : {None}]

NextUpload ==
    \/ \E s \in Sessions : \E req \in UploadOrderReqs : create_order_begin(s, req)
    \/ \E s \in Sessions : \E line \in UploadLines : create_order_line(s, line)
    \/ \E s \in Sessions : create_order_commit(s)
    \/ \E id \in OrderIds : delete_order(id)

SpecUpload == Init /\ [][NextUpload]_vars

\* ---------------------------------------------------------------- status changes
\* One-line orders and PUT /orders/{id} bodies that set a status; the body
\* that finalizes is the only one that carries the descripcion "d".
StatusChangeReqs ==
    {[status_order |-> "Finalizado", descripcion |-> "d", fields |-> NoFields],
     [status_order |-> "En entrega", descripcion |-> None, fields |-> NoFields],
     [status_order |-> "pendiente", descripcion |-> None, fields |-> NoFields],
     [status_order |-> None, descripcion |-> "e", fields |-> NoFields]}

NextStatus ==
    \/ \E s \in Sessions : \E req \in PriceOrderReqs : create_order_begin(s, req)
    \/ \E s \in Sessions : \E line \in UpdLines : create_order_line(s, line)
    \/ \E s \in Sessions : create_order_commit(s)
    \/ \E id \in OrderIds : \E req \in StatusChangeReqs : update_order(id, req)
    \/ \E id \in OrderIds : delete_order(id)

SpecStatus == Init /\ [][NextStatus]_vars

\* ---------------------------------------------------------------- order total
\* One-line orders with a claimed total of 40 or 50 for products priced 10 or
\* 20, then the status changes, the price changes and the deletions.
TotalOrderReqs ==
    [user_id : {"1"}, price_order : {"40", "50"}, products : {"list"}, nlines : {1},
     fields : {NoFields}, file : {None}, upload : {"ok"}]

NextTotal ==
    \/ \E s \in Sessions : \E req \in TotalOrderReqs : create_order_begin(s, req)
    \/ \E s \in Sessions : \E line \in PriceLines : create_order_line(s, line)
    \/ \E s \in Sessions : create_order_commit(s)
    \/ \E id \in OrderIds : \E req \in StatusReqs : update_order(id, req)
    \/ \E id \in OrderIds : delete_order(id)
    \/ \E pid \in ProductIds : \E req \in ProductReqs : update_product(pid, req)

SpecTotal == Init /\ [][NextTotal]_vars

\* ---------------------------------------------------------------- dangling reads
\* Orders with and without a receipt, lines of a product that exists and of
\* one that never did, the deletion of a product, and both reads.
NextDangling ==
    \/ \E s \in Sessions : \E req \in ReadOrderReqs : create_order_begin(s, req)
    \/ \E s \in Sessions : \E line \in ReadLines : create_order_line(s, line)
    \/ \E s \in Sessions : create_order_commit(s)
    \/ delete_product(1)
    \/ \E id \in OrderIds : get_order(id)
    \/ get_orders

SpecDangling == Init /\ [][NextDangling]_vars

\* ---------------------------------------------------------------- product images
\* A product created with or without files, the images of product 1 replaced,
\* flagged, added, deleted and chosen as main.
ImageProductReqs ==
    [nombre_producto : {"n"}, id_categoria : {"1"}, precio : {"10"}, stock : {None},
     nfiles : {0, 2}, upload : {"ok", "fail"}]

ImageFlags == {<<>>} \cup {<<[id |-> i, is_main |-> m]>> : i \in 1..2, m \in BOOLEAN}

ImageUpdateReqs ==
    [nombre_producto : {<<>>}, precio : {<<>>}, stock : {<<>>},
     nfiles : {0, 2}, upload : {"ok", "fail"}, images : ImageFlags]

ImageIds == 1..MaxImages

NextImages ==
    \/ \E req \in ImageProductReqs : create_product(req)
    \/ \E req \in ImageUpdateReqs : update_product(1, req)
    \/ \E n \in 1..2 : add_product_images_check("s1", 1, n)
    \/ \E upload \in {"ok", "fail"} : add_product_images_commit("s1", upload)
    \/ \E id \in ImageIds : delete_product_image(1, id)
    \/ \E id \in ImageIds : set_main_image(1, id)

SpecImages == Init /\ [][NextImages]_vars

\* ---------------------------------------------------------------- image limit
\* Two clients add images to product 1 while its images are replaced and a
\* product is created with files.
LimitProductReqs ==
    [nombre_producto : {"n"}, id_categoria : {"1"}, precio : {"10"}, stock : {None},
     nfiles : {1, 5}, upload : {"ok"}]

LimitUpdateReqs ==
    [nombre_producto : {<<>>}, precio : {<<>>}, stock : {<<>>},
     nfiles : {2, 5}, upload : {"ok"}, images : {<<>>}]

NextImageLimit ==
    \/ \E req \in LimitProductReqs : create_product(req)
    \/ \E req \in LimitUpdateReqs : update_product(1, req)
    \/ \E c \in Clients : \E n \in 1..IMAGE_LIMIT : add_product_images_check(c, 1, n)
    \/ \E c \in Clients : add_product_images_commit(c, "ok")

SpecImageLimit == Init /\ [][NextImageLimit]_vars

\* ---------------------------------------------------------------- product names
\* Products created and renamed, with names in use and free.
NameProductReqs ==
    [nombre_producto : {None, "a", "n", "m"}, id_categoria : {None, "1", "9", "x"},
     precio : {None, "10", "x"}, stock : {None, "5"}, nfiles : {0}, upload : {"ok"}]

NameUpdateReqs ==
    [nombre_producto : {<<>>, <<"a">>, <<"n">>}, precio : {<<>>}, stock : {<<>>, <<9>>},
     nfiles : {0}, upload : {"ok"}, images : {<<>>}]

NextNames ==
    \/ \E req \in NameProductReqs : create_product(req)
    \/ \E pid \in 1..3 : \E req \in NameUpdateReqs : update_product(pid, req)
    \/ \E pid \in ProductIds : delete_product(pid)

SpecNames == Init /\ [][NextNames]_vars

\* ---------------------------------------------------------------- category names
\* Two clients create and rename categories, with names in use and free.
CategoryNames == {"c", "k"}

CategoryUpdates == [name : {<<>>} \cup {<<n>> : n \in CategoryNames}]

CategoryIds == 1..(1 + MaxCategories)

NextCategories ==
    \/ \E c \in Clients : \E name \in CategoryNames : create_category_check(c, name)
    \/ \E c \in Clients : create_category_commit(c)
    \/ \E c \in Clients : \E id \in CategoryIds : \E req \in CategoryUpdates :
          update_category_check(c, id, req)
    \/ \E c \in Clients : update_category_commit(c)

SpecCategories == Init /\ [][NextCategories]_vars

\* ---------------------------------------------------------------- stock
\* Two clients create orders for product 1 at the same time; the stock of a
\* product changes through PUT /products/{id}.
StockLines ==
    [id_producto : {"1"}, cantidad : {None, "2"},
     precio : {None}, talla : {None}, color : {None}]

StockReqs ==
    [nombre_producto : {<<>>}, precio : {<<>>}, stock : {<<9>>},
     nfiles : {0}, upload : {"ok"}, images : {<<>>}]

NextStock ==
    \/ \E c \in Clients : \E req \in ListingOrderReqs : create_order_begin(c, req)
    \/ \E c \in Clients : \E line \in StockLines : create_order_line(c, line)
    \/ \E c \in Clients : create_order_commit(c)
    \/ \E req \in StockReqs : update_product(1, req)

SpecStock == Init /\ [][NextStock]_vars

\* ---------------------------------------------------------------- quantities
\* Lines whose quantity is absent, zero, positive, negative or not a number.
QuantityLines ==
    [id_producto : {"1"}, cantidad : {None, "0", "2", "-1", "x"},
     precio : {None}, talla : {None}, color : {None}]

NextQuantity ==
    \/ \E s \in Sessions : \E req \in ListingOrderReqs : create_order_begin(s, req)
    \/ \E s \in Sessions : \E line \in QuantityLines : create_order_line(s, line)
    \/ \E s \in Sessions : create_order_commit(s)
    \/ \E id \in OrderIds : delete_order(id)

SpecQuantity == Init /\ [][NextQuantity]_vars

\* ---------------------------------------------------------------- accounts
\* Registration, activation, login, recovery and password reset of two
\* accounts, with tokens the server signed (fresh or expired) and forged ones.
Passwords == {"Pw1", "Pw2", "weak"}
RegisterForms ==
    [email : Emails, password : {"Pw1", "weak"}, salt : {1}, mail : {"ok", "unconfigured"}]

LoginForms == [email : Emails, password : {"Pw1", "Pw2"}]

PasswordUpdates ==
    [new_password : Passwords, confirm_password : {"Pw1", "Pw2"}, salt : {2}]

ForgedTokens ==
    [sub : {"ana@x"}, purpose : {"email_verification", "password_recovery"}, sig : {"bad"}]

NextAccounts ==
    \/ \E req \in RegisterForms : register(req)
    \/ \E form_data \in LoginForms : login(form_data)
    \/ \E t \in tokens \cup ForgedTokens : \E expired \in BOOLEAN : verify_email(t, expired)
    \/ \E email \in Emails : \E mail \in {"ok", "unconfigured"} : recover_password(email, mail)
    \/ \E t \in tokens \cup ForgedTokens : \E expired \in BOOLEAN :
          \E data \in PasswordUpdates : new_password(t, expired, data)

SpecAccounts == Init /\ [][NextAccounts]_vars

\* ---------------------------------------------------------------- properties
\* Every OrderItem row written so far: committed, or added by an open transaction.
WrittenItems == items \cup UNION {TxItems(s) : s \in OpenTx}

\* C1: POST /order is all-or-nothing. A create_order request that returns an
\* error leaves the committed orders and items as they were, and no row
\* carrying the id of the order it had added is in the store.
C1_AllOrNothing ==
    [][(resp'.op = "create_order" /\ resp'.code # 201) =>
          /\ orders' = orders
          /\ items' = items
          /\ \A s \in Sessions :
                (tx[s].pc = "open" /\ tx'[s].pc = "idle") =>
                    /\ \A o \in orders' : o.id # tx[s].order.id
                    /\ \A i \in items' : i.order_id # tx[s].order.id]_vars

\* A request failed on a later line, after its Order row and at least one
\* OrderItem had been added inside the transaction.
C1_Witness ==
    /\ resp.op = "create_order"
    /\ resp.code = 500
    /\ resp.rows > 1

\* C2: a line whose product exists is stored with the product's price as it
\* is when the line is processed, whatever price the line carries; the
\* commit stores the rows of the transaction as they are.
C2_PriceSnapshot ==
    [][\A s \in Sessions :
          /\ (tx[s].pc = "open" /\ tx'[s].pc = "open"
                /\ Len(tx'[s].items) = Len(tx[s].items) + 1) =>
                LET it == tx'[s].items[Len(tx'[s].items)]
                IN  ProductRow(it.product_id) # <<>> =>
                        it.price = ProductRow(it.product_id)[1].price
          /\ create_order_commit(s) => items' = items \cup TxItems(s)]_vars

\* A committed item of an existing product: its line carried the price 99.
C2_Witness ==
    /\ resp.op = "create_order"
    /\ resp.code = 201
    /\ \E i \in items :
          /\ ProductRow(i.product_id) # <<>>
          /\ i.price # 99

\* C3: the price of an OrderItem never changes once the row is written.
C3_PriceImmutable ==
    [][\A i \in WrittenItems : \A j \in WrittenItems' :
          j.id = i.id => j.price = i.price]_vars

\* The product's price was changed after an item of it was stored.
C3_Witness ==
    /\ resp.op = "update_product"
    /\ resp.code = 200
    /\ \E i \in items :
          /\ ProductRow(i.product_id) # <<>>
          /\ i.price # ProductRow(i.product_id)[1].price

\* The spellings of the initial status.
PendingSpellings == {"pendiente", "Pendiente", "PENDIENTE"}

\* The request carries at least one of nombre, apellido, direccion, email, telefono.
HasShippingEdit(req) == \E k \in ShippingKeys : req.fields[k] # None

\* C4: a PUT /orders/{id} with shipping/contact edits on an order that is not
\* pending is answered 400 and leaves the order as it was.
C4_EditRejectedUnlessPending ==
    [][\A id \in OrderIds : \A req \in UpdateReqs :
          (/\ update_order(id, req)
           /\ HasShippingEdit(req)
           /\ \E o \in orders : o.id = id /\ o.status \notin PendingSpellings) =>
              /\ resp'.code = 400
              /\ orders' = orders]_vars

\* C5: a PUT /orders/{id} with shipping/contact fields on a pending order is
\* answered 200; each supplied field holds the supplied value afterwards and
\* each field not supplied keeps its value.
C5_EditAppliedWhenPending ==
    [][\A id \in OrderIds : \A req \in UpdateReqs : \A o \in orders :
          (/\ update_order(id, req)
           /\ HasShippingEdit(req)
           /\ o.id = id
           /\ o.status \in PendingSpellings) =>
              /\ resp'.code = 200
              /\ \E n \in orders' :
                    /\ n.id = id
                    /\ \A k \in ShippingKeys :
                          n.fields[k] = IF req.fields[k] # None THEN req.fields[k]
                                        ELSE o.fields[k]]_vars

\* C10: a DELETE /orders/{id} answered 204 removes the Order row and exactly
\* the OrderItem rows of that order.
C10_CascadeDelete ==
    [][(resp'.op = "delete_order" /\ resp'.code = 204) =>
          \A id \in OrderIds :
              delete_order(id) =>
                  /\ \A o \in orders' : o.id # id
                  /\ orders' = {o \in orders : o.id # id}
                  /\ items' = {i \in items : i.order_id # id}]_vars

\* An order with items was deleted while another order's items remain.
C10_Witness ==
    /\ resp.op = "delete_order"
    /\ resp.code = 204
    /\ resp.rows > 0
    /\ items # {}

\* The spellings of the finalized status.
FinalizedSpellings == {"finalizado", "Finalizado", "FINALIZADO"}

\* In the store (os, is), user u owns a finalized order that holds product p.
ReviewEnabledIn(os, is, u, p) ==
    \E o \in os : \E i \in is :
        /\ o.user_id = u
        /\ o.status \in FinalizedSpellings
        /\ i.order_id = o.id
        /\ i.product_id = p

\* In the orders os, user u owns a finalized order.
HasFinalizedOrderIn(os, u) ==
    \E o \in os : o.user_id = u /\ o.status \in FinalizedSpellings

\* The body of a product review names a user and a product and carries a
\* rating and a text.
NamesUserAndProduct(req) ==
    /\ req.user_id # None /\ Converts(req.user_id)
    /\ req.id_producto # None /\ Converts(ProductToken(req.id_producto))
    /\ req.calificacion # None
    /\ req.descripcion # None

ReqUser(req) == IntOf[req.user_id]

ReqProduct(req) == IntOf[ProductToken(req.id_producto)]

\* C6: POST /comments of routers/comments.py stores a Comment for user u and
\* product p only if a finalized order of u (any letter case) holds an item of
\* p; a request naming u and p without such an order is answered 406, and no
\* answer other than 201 stores a Comment.
C6_ReviewNeedsFinalizedPurchase ==
    [][resp'.op = "comments.create_comment" =>
       \A req \in CommentReqs :
          comments_create_comment(req) =>
              /\ (comments' # comments) =>
                    /\ resp'.code = 201
                    /\ NamesUserAndProduct(req)
                    /\ ReviewEnabledIn(orders, items, ReqUser(req), ReqProduct(req))
                    /\ \E c \in comments' \ comments :
                          /\ c.user_id = ReqUser(req)
                          /\ c.product_id = <<ReqProduct(req)>>
              /\ (/\ NamesUserAndProduct(req)
                  /\ ~ReviewEnabledIn(orders, items, ReqUser(req), ReqProduct(req))) =>
                    /\ resp'.code = 406
                    /\ comments' = comments
              /\ (resp'.code # 201) => comments' = comments]_vars

\* A review was refused with 406 while the user's order holding the product
\* was not finalized.
C6_Witness ==
    /\ resp.op = "comments.create_comment"
    /\ resp.code = 406
    /\ \E o \in orders : \E i \in items :
          /\ i.order_id = o.id
          /\ o.status \notin FinalizedSpellings

\* User u owns an order that holds product p, and every such order is in the
\* status POST /order gave it.
OnlyPendingPurchase(u, p) ==
    /\ \E o \in orders : \E i \in items :
          o.user_id = u /\ i.order_id = o.id /\ i.product_id = p
    /\ \A o \in orders : \A i \in items :
          (o.user_id = u /\ i.order_id = o.id /\ i.product_id = p) =>
              o.status = "pendiente"

\* C7: review enablement follows the order lifecycle. The order POST /order
\* commits is pending and enables no review; a review of a product the user
\* holds only in pending orders is answered 406; a PUT /orders/{id} that sets
\* a finalized spelling enables the review of each product of the order; and
\* an enabled review with a rating is answered 201 and its Comment is stored.
C7_ReviewFollowsLifecycle ==
    [][/\ (resp'.op = "create_order") =>
             \A s \in Sessions :
                 create_order_commit(s) =>
                     /\ \A o \in orders' \ orders : o.status = "pendiente"
                     /\ \A u \in UserIds : \A p \in ProductIds :
                           ReviewEnabledIn(orders', items', u, p)
                               = ReviewEnabledIn(orders, items, u, p)
       /\ (resp'.op = "update_order") =>
             \A id \in OrderIds : \A req \in ReviewStatusReqs :
                 (/\ update_order(id, req)
                  /\ req.status_order \in FinalizedSpellings) =>
                     \A o \in orders : \A i \in items :
                         (o.id = id /\ i.order_id = id) =>
                             ReviewEnabledIn(orders', items', o.user_id, i.product_id)
       /\ (resp'.op = "comments.create_comment") =>
             \A req \in CommentReqs :
                 (comments_create_comment(req) /\ NamesUserAndProduct(req)) =>
                     /\ OnlyPendingPurchase(ReqUser(req), ReqProduct(req)) =>
                           /\ resp'.code = 406
                           /\ comments' = comments
                     /\ (/\ Converts(req.calificacion)
                         /\ ReviewEnabledIn(orders, items, ReqUser(req), ReqProduct(req))) =>
                           /\ resp'.code = 201
                           /\ \E c \in comments' \ comments :
                                 /\ c.user_id = ReqUser(req)
                                 /\ c.product_id = <<ReqProduct(req)>>]_vars

\* A review was stored for a product of an order that PUT /orders/{id} had
\* finalized in capital letters.
C7_Witness ==
    /\ resp.op = "comments.create_comment"
    /\ resp.code = 201
    /\ \E c \in comments : \E o \in orders : \E i \in items :
          /\ o.user_id = c.user_id
          /\ o.status = "FINALIZADO"
          /\ i.order_id = o.id
          /\ c.product_id = <<i.product_id>>

\* The body of a general review names a user and carries a rating and a text.
NamesUser(req) ==
    /\ req.user_id # None /\ Converts(req.user_id)
    /\ req.calificacion # None
    /\ req.descripcion # None

\* C8: POST /comments-general stores a Comment without product for user u only
\* if u owns a finalized order (any letter case), whatever the order holds; a
\* request naming u without such an order is answered 406, and no answer other
\* than 201 stores a Comment.
C8_GeneralReviewNeedsFinalizedOrder ==
    [][\A req \in GeneralReqs :
          create_comment_general(req) =>
              /\ (comments' # comments) =>
                    /\ resp'.code = 201
                    /\ NamesUser(req)
                    /\ HasFinalizedOrderIn(orders, ReqUser(req))
                    /\ \E c \in comments' \ comments :
                          /\ c.user_id = ReqUser(req)
                          /\ c.product_id = <<>>
              /\ (NamesUser(req) /\ ~HasFinalizedOrderIn(orders, ReqUser(req))) =>
                    /\ resp'.code = 406
                    /\ comments' = comments
              /\ (/\ NamesUser(req)
                  /\ HasFinalizedOrderIn(orders, ReqUser(req))
                  /\ IntOf[req.calificacion] \in 1..5) =>
                    resp'.code = 201
              /\ (resp'.code # 201) => comments' = comments]_vars

\* A general review was refused with 406 while another user owned a finalized
\* order.
C8_Witness ==
    /\ resp.op = "comments.create_comment_general"
    /\ resp.code = 406
    /\ \E o \in orders : o.status \in FinalizedSpellings

\* C9: the POST /comments handler main.py mounts answers 406 and stores no
\* Comment when the user owns no finalized order holding the product.
C9_MountedReviewNeedsPurchase ==
    [][\A req \in MountedReqs :
          (/\ orders_comments_create_comment(req)
           /\ Converts(req.user_id) /\ Converts(req.product_id)
           /\ ~ReviewEnabledIn(orders, items, IntOf[req.user_id], IntOf[req.product_id])) =>
              /\ resp'.code = 406
              /\ comments' = comments]_vars

C12_CreatedOrderHasItem ==
    [][\A s \in Sessions :
          create_order_commit(s) =>
              \E i \in items' : i.order_id = tx[s].order.id]_vars

\* C13: when inserting an item fails in POST /orders of the mounted router,
\* no Order row and no OrderItem row of the request remains persisted.
C13_MountedCreateAllOrNothing ==
    [][\A req \in OrderCreates :
          (/\ orders_comments_create_order(req)
           /\ OrderCreateValid(req)
           /\ ItemsCommitFails(req)) =>
              /\ orders' = orders
              /\ items' = items]_vars

\* The payload lacks the user id, the claimed total, or a non-empty list of
\* lines.
Incomplete(req) ==
    \/ req.user_id = None
    \/ req.price_order = None
    \/ req.products = None
    \/ req.products = "str"
    \/ req.nlines = 0

\* C14: a POST /order whose user id or claimed total is absent, or whose list
\* of lines is absent, not a list or empty, is answered 400; no blob is
\* uploaded, no row is written and no transaction is opened.
C14_IncompleteRejectedBeforeWrite ==
    [][(resp'.op = "create_order") =>
          \A s \in Sessions : \A req \in UploadOrderReqs :
              (Incomplete(req) /\ create_order_begin(s, req)) =>
                  /\ resp'.code = 400
                  /\ blobs' = blobs
                  /\ orders' = orders
                  /\ items' = items
                  /\ tx' = tx
                  /\ nextOrderId' = nextOrderId]_vars

\* An incomplete request was refused while the store held an order and a
\* receipt.
C14_Witness ==
    /\ resp.op = "create_order"
    /\ resp.code = 400
    /\ orders # {}
    /\ blobs # {}

\* The orders a session can see: committed, or added by an open transaction.
WrittenOrders == orders \cup {tx[s].order : s \in OpenTx}

\* C15: the receipt is uploaded before the transaction of the request opens.
\* The blob store changes only in the step that leaves validation, never
\* while the transaction is open; a failed upload is answered 500 and writes
\* nothing; an order whose image_transaccion is set holds the url of a blob
\* in the store; and a database failure after the upload leaves the blob in
\* the store with no order holding its url.
C15_UploadBeforeTransaction ==
    [][/\ (blobs' # blobs) =>
             \E s \in Sessions :
                 tx[s].pc = "idle" /\ (tx'[s].pc = "open" \/ resp'.code = 500)
       /\ \A s \in Sessions : \A req \in UploadOrderReqs :
             (/\ ~Incomplete(req)
              /\ req.file # None
              /\ FileExt(req.file) \in ALLOWED_EXT
              /\ req.upload = "fail"
              /\ create_order_begin(s, req)) =>
                 /\ resp'.code = 500
                 /\ blobs' = blobs
                 /\ orders' = orders
                 /\ items' = items
                 /\ tx' = tx
       /\ \A o \in WrittenOrders' : o.image # <<>> => o.image[1] \in blobs'
       /\ \A s \in Sessions :
             (/\ tx[s].pc = "open"
              /\ tx[s].order.image # <<>>
              /\ tx'[s].pc = "idle"
              /\ resp'.code = 500) =>
                 /\ blobs' = blobs
                 /\ orders' = orders
                 /\ items' = items
                 /\ tx[s].order.image[1] \in blobs'
                 /\ \A o \in orders' : o.image # tx[s].order.image]_vars

\* A request failed in the database after its receipt was uploaded: the blob
\* is in the store and no order holds it.
C15_Witness ==
    /\ resp.op = "create_order"
    /\ resp.code = 500
    /\ resp.rows >= 1
    /\ blobs # {}
    /\ \A o \in orders : o.image = <<>>

\* C16: a POST /order with a receipt whose extension, in lower case, is not
\* .jpg, .jpeg, .png or .webp is answered 406 (400 when the payload is
\* incomplete); nothing is uploaded, no row is written and no transaction is
\* opened. An allowed extension written in capitals is not refused.
C16_ExtensionRejected ==
    [][(resp'.op = "create_order") =>
          \A s \in Sessions : \A req \in UploadOrderReqs :
              /\ (/\ req.file # None
                  /\ FileExt(req.file) \notin {".jpg", ".jpeg", ".png", ".webp"}
                  /\ create_order_begin(s, req)) =>
                      /\ resp'.code = IF Incomplete(req) THEN 400 ELSE 406
                      /\ blobs' = blobs
                      /\ orders' = orders
                      /\ items' = items
                      /\ tx' = tx
              /\ (req.file = "R.PNG" /\ create_order_begin(s, req)) =>
                      resp'.code # 406]_vars

\* A receipt was refused.
C16_Witness ==
    /\ resp.op = "create_order"
    /\ resp.code = 406

\* C17: a PUT /orders/{id} that supplies a status on an existing order is
\* answered 200 and the order holds that status afterwards, whatever status
\* it held before; the other orders keep theirs.
C17_StatusAlwaysSet ==
    [][(resp'.op = "update_order") =>
          \A id \in OrderIds : \A req \in StatusChangeReqs :
              (/\ req.status_order # None
               /\ OrderRows(id) # {}
               /\ update_order(id, req)) =>
                  /\ resp'.code = 200
                  /\ \E n \in orders' : n.id = id /\ n.status = req.status_order
                  /\ \A o \in orders : o.id # id => o \in orders']_vars

\* An order that had been finalized (it carries the descripcion of the
\* finalizing request) was set back to pending.
C17_Witness ==
    /\ resp.op = "update_order"
    /\ resp.code = 200
    /\ \E o \in orders :
          /\ o.status = "pendiente"
          /\ o.fields["descripcion"] = "d"

\* C18: the total of an Order is the claimed total of its request: the row
\* create_order builds carries it, the commit stores that row, and no later
\* step changes the total of a stored order.
C18_TotalIsClaimedAmount ==
    [][/\ \A s \in Sessions : \A req \in TotalOrderReqs :
             (create_order_begin(s, req) /\ tx'[s].pc = "open") =>
                 tx'[s].order.total = IntOf[req.price_order]
       /\ \A s \in Sessions :
             create_order_commit(s) =>
                 \E n \in orders' : n.id = tx[s].order.id /\ n.total = tx[s].order.total
       /\ \A o \in orders : \A n \in orders' :
             n.id = o.id => n.total = o.total]_vars

\* After a price change, an order holds the claimed total 50 while its only
\* line is worth another amount.
C18_Witness ==
    /\ resp.op = "update_product"
    /\ resp.code = 200
    /\ \E o \in orders :
          /\ o.total = 50
          /\ \E i \in OrderItemsOf(o.id) :
                /\ i.price * i.quantity # 50
                /\ ProductRow(i.product_id)[1].price # i.price

\* C19: a line whose product id matches no Product is stored as an OrderItem
\* of the order being created, with the line's own price, or 0 when it
\* carries none, and the request goes on to its commit.
C19_MissingProductLineStored ==
    [][\A s \in Sessions : \A line \in Lines :
          (/\ line.id_producto # None
           /\ Converts(line.id_producto)
           /\ line.cantidad = None
           /\ ProductRow(IntOf[line.id_producto]) = <<>>
           /\ create_order_line(s, line)) =>
              /\ tx'[s].pc = "open"
              /\ Len(tx'[s].items) = Len(tx[s].items) + 1
              /\ tx'[s].items[Len(tx'[s].items)].product_id = IntOf[line.id_producto]
              /\ tx'[s].items[Len(tx'[s].items)].price
                    = IF line.precio = None THEN 0 ELSE IntOf[line.precio]]_vars

\* C20: GET /orders lists the rows order by order, the newest order first,
\* and the rows of one order in the order in which its items were inserted
\* (the order of the item ids).
C20_ListingOrder ==
    LET filas == build_order_items_response
    IN  \A a, b \in 1..Len(filas) :
            a < b =>
                \/ filas[a].fecha > filas[b].fecha
                \/ /\ filas[a].id = filas[b].id
                   /\ filas[a].order_item_id < filas[b].order_item_id

\* The rows of a read are sound on dangling data: one row per item, a null
\* product snapshot where the product has no row, a null receipt where the
\* order has none.
DanglingSafe(filas, its) ==
    /\ Len(filas) = Cardinality(its)
    /\ \A k \in 1..Len(filas) :
          \E i \in its : \E o \in orders :
              /\ filas[k].order_item_id = i.id
              /\ o.id = i.order_id
              /\ ProductRow(i.product_id) = <<>> => filas[k].id_producto = <<>>
              /\ ProductRow(i.product_id) # <<>> => filas[k].id_producto # <<>>
              /\ o.image = <<>> => filas[k].id_orden.image_transaccion = <<>>

\* C21: GET /orders and GET /orders/{id} (of a stored order) answer 200 with
\* one row per OrderItem; the row of an item whose product has no row (deleted
\* or never existed) has id_producto null, and the row of an order without a
\* receipt has id_orden.image_transaccion null.
C21_ReadSafeOnDanglingData ==
    [][/\ resp'.op = "get_orders" /\ get_orders =>
            /\ resp'.code = 200
            /\ resp'.rows = Cardinality({i \in items : OrderRows(i.order_id) # {}})
            /\ DanglingSafe(build_order_items_response,
                            {i \in items : OrderRows(i.order_id) # {}})
       /\ \A id \in OrderIds :
            resp'.op = "get_order" /\ OrderRows(id) # {} /\ get_order(id) =>
                /\ resp'.code = 200
                /\ resp'.rows = Cardinality(OrderItemsOf(id))
                /\ DanglingSafe(get_order_filas(id), OrderItemsOf(id))]_vars

\* GET /orders answered 200 over an order without receipt whose two items are
\* of a deleted product and of a product that never existed.
C21_Witness ==
    /\ resp.op = "get_orders"
    /\ resp.code = 200
    /\ resp.rows = 2
    /\ ProductRow(1) = <<>>
    /\ \E o \in orders :
          /\ o.image = <<>>
          /\ \E i, j \in OrderItemsOf(o.id) : i.product_id = 1 /\ j.product_id = 3

\* A status spelling with its first letter in upper case.
FirstLetterCapitalized(s) ==
    CASE s = "pendiente" -> "Pendiente"
      [] s = "en entrega" -> "En entrega"
      [] s = "finalizado" -> "Finalizado"
      [] OTHER -> s

\* C22: in every row of the read model (the rows GET /orders answers and
\* POST /order and PUT /orders/{id} filter) the status is the stored status of
\* the order with its first letter capitalized.
C22_StatusCapitalized ==
    LET filas == build_order_items_response
    IN  \A k \in 1..Len(filas) :
            \E o \in orders :
                /\ o.id = filas[k].id
                /\ filas[k].status = FirstLetterCapitalized(o.status)

\* C23: every product that has at least one image has exactly one image with
\* is_main = true.
C23_ExactlyOneMainImage ==
    \A pid \in DOMAIN products :
        ProductImagesOf(pid) # {} =>
            Cardinality({i \in ProductImagesOf(pid) : i.is_main}) = 1

\* C30: no product ever has more than 4 ProductImage rows.
C30_AtMostFourImages ==
    \A pid \in DOMAIN products : Cardinality(ProductImagesOf(pid)) <= IMAGE_LIMIT

\* C24: no two Product rows have the same name.
C24_ProductNamesUnique ==
    \A p, q \in DOMAIN products :
        (p # q /\ products[p] # <<>> /\ products[q] # <<>>) =>
            products[p][1].name # products[q][1].name

\* C25: no two Category rows share a name, whatever the interleaving of the
\* create and update requests.
C25_CategoryNamesUnique ==
    \A a, b \in categories : a.id # b.id => a.name # b.name

\* C26: no step of POST /order (validation, order row, line, commit or
\* rollback), of whichever client and however the requests interleave,
\* changes a Product row: stock and price stay as they were.
C26_OrderCreationLeavesCatalog ==
    [][(resp'.op = "create_order" \/ \E c \in Clients : tx'[c] # tx[c]) =>
           products' = products]_vars

\* Two orders for product 1 created at the same time, one committed and one
\* still open, and the stock of product 1 is the initial 5.
C26_Witness ==
    /\ resp.op = "create_order"
    /\ resp.code = 201
    /\ \E i \in items : i.product_id = 1 /\ i.quantity = 2
    /\ \E c \in OpenTx : \E j \in TxItems(c) : j.product_id = 1 /\ j.quantity = 2
    /\ products[1][1].stock = 5

\* C27: every OrderItem persisted by POST /order has a quantity of at least 1.
C27_QuantityPositive ==
    \A i \in items : i.quantity >= 1

\* The account of `email` exists and is active.
Active(us, email) == us[email] # <<>> /\ us[email][1].is_active

\* C28: a registered account starts inactive; /login answers 200 only for an
\* active account with the right password, 403 for an inactive one with the
\* right password and 401 otherwise; an account becomes active only in a
\* /check-email step that answers 200 and for which the server has signed an
\* email_verification token of that email; /check-email on an active account
\* answers 400 and leaves it active.
C28_ActivationLifecycle ==
    [][/\ \A req \in RegisterForms :
            resp'.op = "register" /\ users[req.email] = <<>> /\ register(req)
                /\ users'[req.email] # <<>> => ~users'[req.email][1].is_active
       /\ \A form_data \in LoginForms :
            resp'.op = "login" /\ login(form_data) =>
                LET user == users[form_data.email]
                    known == /\ user # <<>>
                             /\ verify_password(form_data.password, user[1].password_hash)
                IN  /\ resp'.code = 200 <=> (known /\ user[1].is_active)
                    /\ resp'.code = 403 <=> (known /\ ~user[1].is_active)
                    /\ resp'.code = 401 <=> ~known
                    /\ tokens' # tokens => resp'.code = 200
       /\ \A email \in Emails :
            (~Active(users, email) /\ Active(users', email)) =>
                /\ resp'.op = "verify_email"
                /\ resp'.code = 200
                /\ create_access_token(email, "email_verification") \in tokens
                /\ users[email] # <<>>
       /\ \A t \in tokens : \A expired \in BOOLEAN :
            (resp'.op = "verify_email" /\ t.purpose = "email_verification"
                 /\ Active(users, t.sub) /\ verify_email(t, expired)) =>
                /\ resp'.code = 400
                /\ Active(users', t.sub)]_vars

\* An account that was activated and has logged in, and whose verification
\* token has just been presented again and rejected.
C28_Witness ==
    /\ resp.op = "verify_email"
    /\ resp.code = 400
    /\ \E email \in Emails :
          /\ Active(users, email)
          /\ create_access_token(email, None) \in tokens
          /\ ~Active(users, CHOOSE other \in Emails : other # email)
          /\ users[CHOOSE other \in Emails : other # email] # <<>>

\* What POST /new-password/{token} requires to change the hash.
ResetAccepted(token, expired, data) ==
    /\ token.sig = "ok"
    /\ ~expired
    /\ token.purpose = "password_recovery"
    /\ users[token.sub] # <<>>
    /\ data.new_password = data.confirm_password
    /\ ~verify_password(data.new_password, users[token.sub][1].password_hash)

\* C29: POST /new-password/{token} changes the password hash (of the token's
\* subject, to a hash of the new password) only when the token is valid with
\* purpose password_recovery, the user exists, new_password equals
\* confirm_password and differs from the current password; in every other
\* case the request is rejected and the users table is unchanged.
C29_ResetNeedsRecoveryToken ==
    [][resp'.op = "new_password" =>
       \A t \in tokens \cup ForgedTokens : \A expired \in BOOLEAN :
          \A data \in PasswordUpdates :
              new_password(t, expired, data) =>
                  IF ResetAccepted(t, expired, data) /\ PasswordValid(data.new_password)
                  THEN /\ resp'.code = 200
                       /\ verify_password(data.new_password,
                                          users'[t.sub][1].password_hash)
                       /\ \A e \in Emails : e # t.sub => users'[e] = users[e]
                       /\ users'[t.sub][1].is_active = users[t.sub][1].is_active
                  ELSE /\ resp'.code \in {400, 404, 406, 422}
                       /\ users' = users]_vars

\* A reset accepted for an account while an email_verification token of the
\* other, not yet activated, account is in circulation.
C29_Witness ==
    /\ resp.op = "new_password"
    /\ resp.code = 200
    /\ \E email \in Emails :
          /\ Active(users, email)
          /\ users[email][1].password_hash.bcrypt = "Pw2"
          /\ create_access_token(email, "password_recovery") \in tokens
    /\ \E t \in tokens : t.purpose = "email_verification" /\ ~Active(users, t.sub)

====
